---- MODULE Spec2Model ----
(***************************************************************************)
(* Model of hello-tool-base: the metrics Collector                         *)
(* (internal/metrics/server_metrics.go) and, in the second part, the       *)
(* application errors (internal/apperrors/errors.go).                      *)
(*                                                                         *)
(* Every exported method of the Collector is translated statement by       *)
(* statement: a worker (goroutine) that calls a method walks through the   *)
(* method's statements one label at a time, so that the states in which    *)
(* the lock is held and an update is only partially applied are states of  *)
(* the model.  `x++` is a load followed by a store.  Maps are heap         *)
(* objects: a struct copy copies the reference, not the contents.          *)
(***************************************************************************)
EXTENDS Integers, Sequences, FiniteSets, TLC

\* ---------------------------------------------------------------- bounds
\* Calls a single caller makes in the sequential specification Spec.
MaxOps == 3
\* Calls the workers make, together, in the concurrent specification SpecConc.
MaxConcOps == 3
\* Largest value of the logical wall clock.
MaxClock == 1
\* Largest error-buffer capacity handed to NewCollector.
MaxBufferSize == 2
\* Foreign wrappers a caller puts around an error.
MaxWraps == 2
\* Requests the HTTP service handles, each on a goroutine of its own.
MaxRequests == 2

\* ---------------------------------------------------------------- inputs
Workers == {"w1", "w2"}
Caller == "w1"
Identifiers == {"x", "y"}
Latencies == {0, 1, 100, 200}
ConnectionIDs == {"c1", "c2"}
Components == {"db"}
Messages == {"e1", "e2"}
Stacks == {""}
BufferSizes == (0 - 1) .. MaxBufferSize

\* Inputs of the concurrent specification.
ConcIdentifiers == {"x"}
ConcLatencies == {100}
ConcConnectionIDs == {"c1", "c2"}
ConcMessages == {"e1"}
ConcBufferSizes == {1}

VARIABLES
    constructed,        \* TRUE once NewCollector has returned a *Collector
    panicked,           \* TRUE once the process has panicked
    metrics,            \* Collector.metrics (ServerMetrics; RequestLatencies is a map reference)
    mapHeap,            \* the heap of map[string]int objects: reference -> contents
    startTime,          \* Collector.startTime
    errorBuffer,        \* Collector.errorBuffer
    bufferSize,         \* Collector.bufferSize
    mu,                 \* Collector.mu (sync.RWMutex): the writer and the set of readers
    activeConnections,  \* Collector.activeConnections (map[string]bool)
    now,                \* the wall clock read by time.Now() and time.Since()
    pc,                 \* per worker: the statement it is about to execute
    args,               \* per worker: the arguments of the call it is in
    local,              \* per worker: the local variable / loaded register of the call
    snap,               \* per worker: <<>> or <<s>>, s the ServerMetrics value it holds
    entry,              \* history: per worker <<>> or <<e>>, e.view the collector's view and
                        \* e.seen the ids ever active when the worker took the lock
    calls,              \* history: number of calls made, per method
    everActive,         \* history: connection ids ever recorded with active = true
    recorded,           \* history: every ErrorInfo built by RecordError, in order
    committedViews,     \* history: the collector's reported state after construction and,
                        \* where it is kept, after each completed write operation
    observed,           \* history: per identifier, the latencies RecordRequest has blended in
    held,               \* apperrors: the error value the caller holds
    callerContext,      \* apperrors: the context map the caller holds (a reference, or nil)
    baseErrs,           \* apperrors: the heap of BaseError structs: reference -> fields
    ctxHeap,            \* apperrors: the heap of map[string]interface{} objects
    mapped,             \* apperrors: <<>> or <<r>>, r what MapAppErrorToJSONRPC returned
    lastCall,           \* history: the last apperrors call made, with its arguments
    defaultLogger,      \* logging: the package variable defaultLogger (a logger reference)
    loggers,            \* logging: the heap of Logger objects: reference -> logger; a
                        \* reference names the goroutine that allocated the object
    baseLogger,         \* middleware: the baseLogger a Tracing instance has captured
    req                 \* per request: its inputs, the locals of Tracing and of the
                        \* handler, its context, its response, and as history what
                        \* uuid.New returned for it and the log records it wrote

vars == <<constructed, panicked, metrics, mapHeap, startTime, errorBuffer, bufferSize,
          mu, activeConnections, now, pc, args, local, snap, entry, calls, everActive,
          recorded, committedViews, observed, held, callerContext, baseErrs, ctxHeap, mapped,
          lastCall, defaultLogger, loggers, baseLogger, req>>

collectorVars == <<metrics, mapHeap, startTime, errorBuffer, bufferSize, activeConnections>>
historyVars == <<everActive, recorded, committedViews, observed>>
errVars == <<held, callerContext, baseErrs, ctxHeap, mapped, lastCall>>
webVars == <<defaultLogger, loggers, baseLogger, req>>

\* ---------------------------------------------------------------- values
NoArgs == [none |-> TRUE]
NoLocal == [none |-> TRUE]
NoWriter == "none"
NilMap == 0
EmptyMap == [k \in {} |-> 0]

ZeroMetrics ==
    [StartTime |-> 0, Uptime |-> 0,
     ActiveConnections |-> 0, TotalConnections |-> 0, FailedConnections |-> 0,
     TotalRequests |-> 0, FailedRequests |-> 0,
     RequestLatencies |-> NilMap, LastErrors |-> <<>>]

ZeroCalls ==
    [RecordRequest |-> 0, failedRequests |-> 0, RecordConnection |-> 0,
     RecordConnectionFailure |-> 0, RecordError |-> 0, GetCurrentMetrics |-> 0,
     mutations |-> 0]

CallCount ==
    calls.RecordRequest + calls.RecordConnection + calls.RecordConnectionFailure
        + calls.RecordError + calls.GetCurrentMetrics + calls.mutations

\* m[k] = v on a Go map.
MapPut(m, k, v) == [j \in (DOMAIN m) \cup {k} |-> IF j = k THEN v ELSE m[j]]

\* delete(m, k) on a Go map: no effect when k is absent.
MapDelete(m, k) == [j \in (DOMAIN m) \ {k} |-> m[j]]

\* Go's integer division truncates toward zero.
GoQuot(a, b) ==
    IF a >= 0 THEN a \div b ELSE 0 - ((0 - a) \div b)

\* The contents of the collector that the lock protects, maps dereferenced.
View ==
    [ActiveConnections |-> metrics.ActiveConnections,
     TotalConnections |-> metrics.TotalConnections,
     FailedConnections |-> metrics.FailedConnections,
     TotalRequests |-> metrics.TotalRequests,
     FailedRequests |-> metrics.FailedRequests,
     RequestLatencies |-> IF metrics.RequestLatencies = NilMap THEN EmptyMap
                          ELSE mapHeap[metrics.RequestLatencies],
     LastErrors |-> errorBuffer,
     active |-> DOMAIN activeConnections]

\* The part of a view that a ServerMetrics value carries.
Reported(v) ==
    [ActiveConnections |-> v.ActiveConnections,
     TotalConnections |-> v.TotalConnections,
     FailedConnections |-> v.FailedConnections,
     TotalRequests |-> v.TotalRequests,
     FailedRequests |-> v.FailedRequests,
     RequestLatencies |-> v.RequestLatencies,
     LastErrors |-> v.LastErrors]

\* What a caller reads from a ServerMetrics value s it holds, maps dereferenced.
SnapView(s) ==
    [ActiveConnections |-> s.ActiveConnections,
     TotalConnections |-> s.TotalConnections,
     FailedConnections |-> s.FailedConnections,
     TotalRequests |-> s.TotalRequests,
     FailedRequests |-> s.FailedRequests,
     RequestLatencies |-> IF s.RequestLatencies = NilMap THEN EmptyMap
                          ELSE mapHeap[s.RequestLatencies],
     LastErrors |-> s.LastErrors]

\* ---------------------------------------------------------------- web: values
\* A Go string is the sequence of its pieces; "" is the empty sequence.
EmptyString == <<>>

Requests == 1 .. MaxRequests

\* The prefix fmt.Sprintf("generated-%s", ...) puts before the UUID.
GeneratedPrefix == "generated-"
\* What uuid.New().String() may return: any UUID, one the process has returned
\* before included (the bits are random).
UUIDs == {"u1", "u2"}
\* Values of the X-Cloud-Trace-Context request header; EmptyString is what
\* Header.Get returns for an absent or empty header.  A client is free to send a
\* value that starts with "generated-".
InboundValues == {EmptyString, <<"abc">>, <<GeneratedPrefix, "u1">>}
\* Values of r.URL.Query().Get("name"); EmptyString when the parameter is missing.
Names == {EmptyString, <<"A">>, <<"<">>}
Routes == {"/hello", "/health"}
\* The level strings given to SetupDefaultLogger.
LevelNames == {"debug", "error"}

HeaderTraceID == "X-Trace-ID"

\* The goroutine of main, which also initialises the package variables; the
\* goroutine of request r is r.
MainGoroutine == 0

\* The nil Logger interface value, and the reference of the NoopLogger singleton.
NilLogger == 0
noop == 1

\* A fresh reference for an object that goroutine g allocates: references are
\* numbered per goroutine, so that the order in which goroutines allocate does not
\* show in them.
NewRef(heap, g) == 10 * g + 1 + Cardinality({n \in DOMAIN heap : n \div 10 = g})
NoopLogger == [kind |-> "noop", level |-> "none", attrs |-> <<>>]

\* slog's levels, as SetupDefaultLogger maps the level strings.
LevelRank == [debug |-> 0 - 4, info |-> 0, warn |-> 4, error |-> 8]

\* A context.Context without values.
Background == [traceID |-> <<>>, logger |-> <<>>]
NoHeaders == [k \in {} |-> EmptyString]

\* A request nobody has received yet.
NewRequest ==
    [pc |-> "new", traced |-> FALSE, inbound |-> EmptyString, route |-> "",
     name |-> EmptyString, uuid |-> <<>>, traceID |-> EmptyString, header |-> NoHeaders,
     ctx |-> Background, served |-> <<>>, fromCtx |-> NilLogger, reqLogger |-> NilLogger,
     response |-> <<>>, emitted |-> <<>>]

\* ---------------------------------------------------------------- Init
Init ==
    /\ constructed = FALSE
    /\ panicked = FALSE
    /\ metrics = ZeroMetrics
    /\ mapHeap = <<>>
    /\ startTime = 0
    /\ errorBuffer = <<>>
    /\ bufferSize = 0
    /\ mu = [writer |-> NoWriter, readers |-> {}]
    /\ activeConnections = [k \in {} |-> TRUE]
    /\ now = 0
    /\ pc = [w \in Workers |-> "idle"]
    /\ args = [w \in Workers |-> NoArgs]
    /\ local = [w \in Workers |-> NoLocal]
    /\ snap = [w \in Workers |-> <<>>]
    /\ entry = [w \in Workers |-> <<>>]
    /\ calls = ZeroCalls
    /\ everActive = {}
    /\ recorded = <<>>
    /\ committedViews = {}
    /\ observed = [k \in {} |-> {}]
    /\ held = [t |-> "nil"]
    /\ callerContext = 0
    /\ baseErrs = <<>>
    /\ ctxHeap = <<>>
    /\ mapped = <<>>
    /\ lastCall = [op |-> "none", code |-> 0, key |-> ""]
    /\ defaultLogger = noop
    /\ loggers = (noop :> NoopLogger)
    /\ baseLogger = NilLogger
    /\ req = [r \in Requests |-> NewRequest]

\* ---------------------------------------------------------------- clock
\* Time passes.
Tick ==
    /\ now < MaxClock
    /\ now' = now + 1
    /\ UNCHANGED <<constructed, panicked, collectorVars, mu, pc, args, local, snap, entry,
                   calls, historyVars, errVars, webVars>>

\* ---------------------------------------------------------------- NewCollector
\* make([]ErrorInfo, 0, n) panics at run time when n is negative.
MakeSlicePanics(n) == n < 0

NewCollector(errorBufferSize) ==
    /\ ~constructed
    /\ ~panicked
    /\ IF MakeSlicePanics(errorBufferSize)
       THEN /\ panicked' = TRUE
            /\ UNCHANGED <<constructed, collectorVars, committedViews>>
       ELSE /\ constructed' = TRUE
            /\ mapHeap' = Append(mapHeap, EmptyMap)
            /\ metrics' = [ZeroMetrics EXCEPT !.StartTime = now,
                                              !.RequestLatencies = Len(mapHeap) + 1]
            /\ startTime' = now
            /\ errorBuffer' = <<>>
            /\ bufferSize' = errorBufferSize
            /\ activeConnections' = [k \in {} |-> TRUE]
            /\ committedViews' = {Reported(View)'}
            /\ UNCHANGED panicked
    /\ UNCHANGED <<mu, now, pc, args, local, snap, entry, calls, everActive, recorded,
                   observed, errVars, webVars>>

\* ---------------------------------------------------------------- sync.RWMutex
\* Variant: a Lock() that does not wait for the holder (a plain, unguarded update).
CanLockNoExclusion(w) == TRUE

\* Lock() returns once no writer and no reader holds the mutex.
CanLock(w) == mu.writer = NoWriter /\ mu.readers = {}

\* RLock() returns once no writer holds the mutex.
CanRLock(w) == mu.writer = NoWriter

\* c.mu.Lock() at the head of a writer; `next` is the statement after it.
Lock(w, at, next) ==
    /\ pc[w] = at
    /\ CanLock(w)
    /\ mu' = [mu EXCEPT !.writer = w]
    /\ entry' = [entry EXCEPT ![w] = <<[view |-> View, seen |-> everActive]>>]
    /\ pc' = [pc EXCEPT ![w] = next]
    /\ UNCHANGED <<constructed, panicked, collectorVars, now, args, local, snap, calls,
                   historyVars, errVars, webVars>>

\* The deferred c.mu.Unlock(), then the return to the caller. `keep` says whether the
\* history of committed views is recorded.
Unlock(w, at, keep) ==
    /\ pc[w] = at
    /\ mu' = [mu EXCEPT !.writer = IF @ = w THEN NoWriter ELSE @]
    /\ entry' = [entry EXCEPT ![w] = <<>>]
    /\ pc' = [pc EXCEPT ![w] = "idle"]
    /\ args' = [args EXCEPT ![w] = NoArgs]
    /\ local' = [local EXCEPT ![w] = NoLocal]
    /\ committedViews' = IF keep THEN committedViews \cup {Reported(View)}
                         ELSE committedViews
    /\ UNCHANGED <<constructed, panicked, collectorVars, now, snap, calls, everActive,
                   recorded, observed, errVars, webVars>>

\* A caller may call a method of the collector it was handed.
CanCall(w, budget) ==
    /\ constructed
    /\ pc[w] = "idle"
    /\ CallCount < budget

\* ---------------------------------------------------------------- RecordRequest
CallRecordRequest(w, budget, identifier, latencyMs, success) ==
    /\ CanCall(w, budget)
    /\ pc' = [pc EXCEPT ![w] = "rr_lock"]
    /\ args' = [args EXCEPT ![w] = [identifier |-> identifier, latencyMs |-> latencyMs,
                                    success |-> success]]
    /\ calls' = [calls EXCEPT !.RecordRequest = @ + 1,
                              !.failedRequests = IF success THEN @ ELSE @ + 1]
    /\ UNCHANGED <<constructed, panicked, collectorVars, mu, now, local, snap, entry,
                   historyVars, errVars, webVars>>

RR_Lock(w) == Lock(w, "rr_lock", "rr_total_load")

\* c.metrics.TotalRequests++ : the load
RR_LoadTotal(w) ==
    /\ pc[w] = "rr_total_load"
    /\ local' = [local EXCEPT ![w] = [v |-> metrics.TotalRequests]]
    /\ pc' = [pc EXCEPT ![w] = "rr_total_store"]
    /\ UNCHANGED <<constructed, panicked, collectorVars, mu, now, args, snap, entry, calls,
                   historyVars, errVars, webVars>>

\* c.metrics.TotalRequests++ : the store, then `if !success`
RR_StoreTotal(w) ==
    /\ pc[w] = "rr_total_store"
    /\ metrics' = [metrics EXCEPT !.TotalRequests = local[w].v + 1]
    /\ local' = [local EXCEPT ![w] = NoLocal]
    /\ pc' = [pc EXCEPT ![w] = IF ~args[w].success THEN "rr_failed_load" ELSE "rr_latency"]
    /\ UNCHANGED <<constructed, panicked, mapHeap, startTime, errorBuffer, bufferSize,
                   activeConnections, mu, now, args, snap, entry, calls, historyVars,
                   errVars, webVars>>

\* c.metrics.FailedRequests++ : the load
RR_LoadFailed(w) ==
    /\ pc[w] = "rr_failed_load"
    /\ local' = [local EXCEPT ![w] = [v |-> metrics.FailedRequests]]
    /\ pc' = [pc EXCEPT ![w] = "rr_failed_store"]
    /\ UNCHANGED <<constructed, panicked, collectorVars, mu, now, args, snap, entry, calls,
                   historyVars, errVars, webVars>>

\* c.metrics.FailedRequests++ : the store
RR_StoreFailed(w) ==
    /\ pc[w] = "rr_failed_store"
    /\ metrics' = [metrics EXCEPT !.FailedRequests = local[w].v + 1]
    /\ local' = [local EXCEPT ![w] = NoLocal]
    /\ pc' = [pc EXCEPT ![w] = "rr_latency"]
    /\ UNCHANGED <<constructed, panicked, mapHeap, startTime, errorBuffer, bufferSize,
                   activeConnections, mu, now, args, snap, entry, calls, historyVars,
                   errVars, webVars>>

\* Variant: the sum is not halved.
BlendSum(existingAvg, latencyMs) == existingAvg + latencyMs

\* (existingAvg + latencyMs) / 2
Blend(existingAvg, latencyMs) == GoQuot(existingAvg + latencyMs, 2)

\* Variant: the blend is chosen on a non-zero value instead of on the entry's presence.
UpdatedLatenciesNonZero(m, identifier, latencyMs) ==
    IF identifier \in DOMAIN m /\ m[identifier] # 0
    THEN MapPut(m, identifier, Blend(m[identifier], latencyMs))
    ELSE MapPut(m, identifier, latencyMs)

\* The new contents of c.metrics.RequestLatencies after the if/else on `ok`.
UpdatedLatencies(m, identifier, latencyMs) ==
    IF identifier \in DOMAIN m
    THEN MapPut(m, identifier, Blend(m[identifier], latencyMs))
    ELSE MapPut(m, identifier, latencyMs)

RR_Latency(w) ==
    /\ pc[w] = "rr_latency"
    /\ mapHeap' = [mapHeap EXCEPT ![metrics.RequestLatencies] =
                       UpdatedLatencies(@, args[w].identifier, args[w].latencyMs)]
    /\ observed' = MapPut(observed, args[w].identifier,
                          (IF args[w].identifier \in DOMAIN observed
                           THEN observed[args[w].identifier] ELSE {})
                              \cup {args[w].latencyMs})
    /\ pc' = [pc EXCEPT ![w] = "rr_unlock"]
    /\ UNCHANGED <<constructed, panicked, metrics, startTime, errorBuffer, bufferSize,
                   activeConnections, mu, now, args, local, snap, entry, calls, everActive,
                   recorded, committedViews, errVars, webVars>>

RR_Unlock(w, keep) == Unlock(w, "rr_unlock", keep)

\* ---------------------------------------------------------------- RecordConnection
CallRecordConnection(w, budget, connectionID, active) ==
    /\ CanCall(w, budget)
    /\ pc' = [pc EXCEPT ![w] = "rc_lock"]
    /\ args' = [args EXCEPT ![w] = [connectionID |-> connectionID, active |-> active]]
    /\ calls' = [calls EXCEPT !.RecordConnection = @ + 1]
    /\ UNCHANGED <<constructed, panicked, collectorVars, mu, now, local, snap, entry,
                   historyVars, errVars, webVars>>

RC_Lock(w) == Lock(w, "rc_lock", "rc_track")

\* Variant: no activation counts as a new connection.
IsNewConnectionNever(ac, connectionID) == FALSE

\* Variant: every activation counts as a new connection.
IsNewConnectionAlways(ac, connectionID) == TRUE

\* `_, exists := c.activeConnections[connectionID]; !exists`
IsNewConnection(ac, connectionID) == connectionID \notin DOMAIN ac

\* Variant: the close branch returns right after the delete, without the recount.
AfterTrackEarlyReturn(active, isNew) ==
    IF ~active THEN "rc_unlock" ELSE IF isNew THEN "rc_total_load" ELSE "rc_count"

\* The statement that follows the if/else on `active`: TotalConnections++ inside the
\* `!exists` branch, the recount of line 193 on every other path.
AfterTrack(active, isNew) == IF active /\ isNew THEN "rc_total_load" ELSE "rc_count"

\* The if/else on `active`: the map update, and whether TotalConnections++ follows.
RC_Track(w) ==
    /\ pc[w] = "rc_track"
    /\ activeConnections' =
           IF args[w].active
           THEN MapPut(activeConnections, args[w].connectionID, TRUE)
           ELSE MapDelete(activeConnections, args[w].connectionID)
    /\ pc' = [pc EXCEPT ![w] =
                 AfterTrack(args[w].active,
                            IsNewConnection(activeConnections, args[w].connectionID))]
    /\ everActive' = IF args[w].active THEN everActive \cup {args[w].connectionID}
                     ELSE everActive
    /\ UNCHANGED <<constructed, panicked, metrics, mapHeap, startTime, errorBuffer,
                   bufferSize, mu, now, args, local, snap, entry, calls, recorded,
                   committedViews, observed, errVars, webVars>>

\* c.metrics.TotalConnections++ : the load
RC_LoadTotal(w) ==
    /\ pc[w] = "rc_total_load"
    /\ local' = [local EXCEPT ![w] = [v |-> metrics.TotalConnections]]
    /\ pc' = [pc EXCEPT ![w] = "rc_total_store"]
    /\ UNCHANGED <<constructed, panicked, collectorVars, mu, now, args, snap, entry, calls,
                   historyVars, errVars, webVars>>

\* c.metrics.TotalConnections++ : the store
RC_StoreTotal(w) ==
    /\ pc[w] = "rc_total_store"
    /\ metrics' = [metrics EXCEPT !.TotalConnections = local[w].v + 1]
    /\ local' = [local EXCEPT ![w] = NoLocal]
    /\ pc' = [pc EXCEPT ![w] = "rc_count"]
    /\ UNCHANGED <<constructed, panicked, mapHeap, startTime, errorBuffer, bufferSize,
                   activeConnections, mu, now, args, snap, entry, calls, historyVars,
                   errVars, webVars>>

\* len(c.activeConnections)
ActiveCount(ac) == Cardinality(DOMAIN ac)

\* Variant: a close decrements the gauge instead of recounting the set.
RC_CountDecrement(w) ==
    /\ pc[w] = "rc_count"
    /\ metrics' = [metrics EXCEPT !.ActiveConnections =
                       IF args[w].active THEN ActiveCount(activeConnections) ELSE @ - 1]
    /\ pc' = [pc EXCEPT ![w] = "rc_unlock"]
    /\ UNCHANGED <<constructed, panicked, mapHeap, startTime, errorBuffer, bufferSize,
                   activeConnections, mu, now, args, local, snap, entry, calls, historyVars,
                   errVars, webVars>>

\* c.metrics.ActiveConnections = len(c.activeConnections)
RC_Count(w) ==
    /\ pc[w] = "rc_count"
    /\ metrics' = [metrics EXCEPT !.ActiveConnections = ActiveCount(activeConnections)]
    /\ pc' = [pc EXCEPT ![w] = "rc_unlock"]
    /\ UNCHANGED <<constructed, panicked, mapHeap, startTime, errorBuffer, bufferSize,
                   activeConnections, mu, now, args, local, snap, entry, calls, historyVars,
                   errVars, webVars>>

RC_Unlock(w, keep) == Unlock(w, "rc_unlock", keep)

\* ---------------------------------------------------------------- RecordConnectionFailure
CallRecordConnectionFailure(w, budget) ==
    /\ CanCall(w, budget)
    /\ pc' = [pc EXCEPT ![w] = "rcf_lock"]
    /\ args' = [args EXCEPT ![w] = NoArgs]
    /\ calls' = [calls EXCEPT !.RecordConnectionFailure = @ + 1]
    /\ UNCHANGED <<constructed, panicked, collectorVars, mu, now, local, snap, entry,
                   historyVars, errVars, webVars>>

RCF_Lock(w) == Lock(w, "rcf_lock", "rcf_load")

\* c.metrics.FailedConnections++ : the load
RCF_Load(w) ==
    /\ pc[w] = "rcf_load"
    /\ local' = [local EXCEPT ![w] = [v |-> metrics.FailedConnections]]
    /\ pc' = [pc EXCEPT ![w] = "rcf_store"]
    /\ UNCHANGED <<constructed, panicked, collectorVars, mu, now, args, snap, entry, calls,
                   historyVars, errVars, webVars>>

\* Variant: a failed attempt is also counted as a connection.
RCF_StoreCountsTotal(w) ==
    /\ pc[w] = "rcf_store"
    /\ metrics' = [metrics EXCEPT !.FailedConnections = local[w].v + 1,
                                  !.TotalConnections = @ + 1]
    /\ local' = [local EXCEPT ![w] = NoLocal]
    /\ pc' = [pc EXCEPT ![w] = "rcf_unlock"]
    /\ UNCHANGED <<constructed, panicked, mapHeap, startTime, errorBuffer, bufferSize,
                   activeConnections, mu, now, args, snap, entry, calls, historyVars,
                   errVars, webVars>>

\* c.metrics.FailedConnections++ : the store
RCF_Store(w) ==
    /\ pc[w] = "rcf_store"
    /\ metrics' = [metrics EXCEPT !.FailedConnections = local[w].v + 1]
    /\ local' = [local EXCEPT ![w] = NoLocal]
    /\ pc' = [pc EXCEPT ![w] = "rcf_unlock"]
    /\ UNCHANGED <<constructed, panicked, mapHeap, startTime, errorBuffer, bufferSize,
                   activeConnections, mu, now, args, snap, entry, calls, historyVars,
                   errVars, webVars>>

RCF_Unlock(w, keep) == Unlock(w, "rcf_unlock", keep)

\* ---------------------------------------------------------------- RecordError
CallRecordError(w, budget, component, message, stack) ==
    /\ CanCall(w, budget)
    /\ pc' = [pc EXCEPT ![w] = "re_lock"]
    /\ args' = [args EXCEPT ![w] = [component |-> component, message |-> message,
                                    stack |-> stack]]
    /\ calls' = [calls EXCEPT !.RecordError = @ + 1]
    /\ UNCHANGED <<constructed, panicked, collectorVars, mu, now, local, snap, entry,
                   historyVars, errVars, webVars>>

RE_Lock(w) == Lock(w, "re_lock", "re_build")

\* errorInfo := ErrorInfo{Timestamp: time.Now(), ...}
RE_Build(w) ==
    /\ pc[w] = "re_build"
    /\ LET errorInfo == [Timestamp |-> now, Component |-> args[w].component,
                         Message |-> args[w].message, Stack |-> args[w].stack]
       IN  /\ local' = [local EXCEPT ![w] = [errorInfo |-> errorInfo]]
           /\ recorded' = Append(recorded, errorInfo)
    /\ pc' = [pc EXCEPT ![w] = "re_guard"]
    /\ UNCHANGED <<constructed, panicked, collectorVars, mu, now, args, snap, entry, calls,
                   everActive, committedViews, observed, errVars, webVars>>

\* `if c.bufferSize <= 0 { return }`
BufferDisabled(size) == size <= 0

\* Variant: the early return leaves the method without running the deferred Unlock.
AfterGuardKeepsLock(disabled) == IF disabled THEN "idle" ELSE "re_evict"

\* The statement that follows the guard: the early return runs the deferred Unlock.
AfterGuard(disabled) == IF disabled THEN "re_unlock" ELSE "re_evict"

RE_Guard(w) ==
    /\ pc[w] = "re_guard"
    /\ pc' = [pc EXCEPT ![w] = AfterGuard(BufferDisabled(bufferSize))]
    /\ UNCHANGED <<constructed, panicked, collectorVars, mu, now, args, local, snap, entry,
                   calls, historyVars, errVars, webVars>>

\* Variant: the eviction test is `>` instead of `>=`.
EvictWhenOver(buf, size) == IF Len(buf) > size THEN Tail(buf) ELSE buf

\* `if len(c.errorBuffer) >= c.bufferSize { c.errorBuffer = c.errorBuffer[1:] }`
EvictOldest(buf, size) == IF Len(buf) >= size THEN Tail(buf) ELSE buf

RE_Evict(w) ==
    /\ pc[w] = "re_evict"
    /\ errorBuffer' = EvictOldest(errorBuffer, bufferSize)
    /\ pc' = [pc EXCEPT ![w] = "re_append"]
    /\ UNCHANGED <<constructed, panicked, metrics, mapHeap, startTime, bufferSize,
                   activeConnections, mu, now, args, local, snap, entry, calls, historyVars,
                   errVars, webVars>>

\* c.errorBuffer = append(c.errorBuffer, errorInfo)
RE_Append(w) ==
    /\ pc[w] = "re_append"
    /\ errorBuffer' = Append(errorBuffer, local[w].errorInfo)
    /\ pc' = [pc EXCEPT ![w] = "re_unlock"]
    /\ UNCHANGED <<constructed, panicked, metrics, mapHeap, startTime, bufferSize,
                   activeConnections, mu, now, args, local, snap, entry, calls, historyVars,
                   errVars, webVars>>

RE_Unlock(w, keep) == Unlock(w, "re_unlock", keep)

\* ---------------------------------------------------------------- GetCurrentMetrics
CallGetCurrentMetrics(w, budget) ==
    /\ CanCall(w, budget)
    /\ pc' = [pc EXCEPT ![w] = "gm_rlock"]
    /\ args' = [args EXCEPT ![w] = NoArgs]
    /\ calls' = [calls EXCEPT !.GetCurrentMetrics = @ + 1]
    /\ UNCHANGED <<constructed, panicked, collectorVars, mu, now, local, snap, entry,
                   historyVars, errVars, webVars>>

\* c.mu.RLock()
GM_RLock(w) ==
    /\ pc[w] = "gm_rlock"
    /\ CanRLock(w)
    /\ mu' = [mu EXCEPT !.readers = @ \cup {w}]
    /\ pc' = [pc EXCEPT ![w] = "gm_gauges"]
    /\ UNCHANGED <<constructed, panicked, collectorVars, now, args, local, snap, entry,
                   calls, historyVars, errVars, webVars>>

\* currentUptime := time.Since(c.startTime); the runtime gauges (goroutines, memory)
\* are read from the Go runtime and are no part of the collector's state.
GM_Gauges(w) ==
    /\ pc[w] = "gm_gauges"
    /\ local' = [local EXCEPT ![w] = [currentUptime |-> now - startTime]]
    /\ pc' = [pc EXCEPT ![w] = "gm_copy"]
    /\ UNCHANGED <<constructed, panicked, collectorVars, mu, now, args, snap, entry, calls,
                   historyVars, errVars, webVars>>

\* `metricsCopy := c.metrics`: a struct copy. The RequestLatencies field is a map,
\* so the copy holds the same map reference as c.metrics.
StructCopy(m) == m

\* metricsCopy := c.metrics; metricsCopy.Uptime = currentUptime; ...
GM_Copy(w) ==
    /\ pc[w] = "gm_copy"
    /\ local' = [local EXCEPT ![w] =
                    [metricsCopy |-> [StructCopy(metrics) EXCEPT
                                         !.Uptime = local[w].currentUptime]]]
    /\ pc' = [pc EXCEPT ![w] = "gm_errors"]
    /\ UNCHANGED <<constructed, panicked, collectorVars, mu, now, args, snap, entry, calls,
                   historyVars, errVars, webVars>>

\* make + copy of c.errorBuffer when it is not empty, nil otherwise.
CopyErrors(buf) == IF Len(buf) > 0 THEN [i \in 1 .. Len(buf) |-> buf[i]] ELSE <<>>

GM_Errors(w) ==
    /\ pc[w] = "gm_errors"
    /\ local' = [local EXCEPT ![w].metricsCopy.LastErrors = CopyErrors(errorBuffer)]
    /\ pc' = [pc EXCEPT ![w] = "gm_runlock"]
    /\ UNCHANGED <<constructed, panicked, collectorVars, mu, now, args, snap, entry, calls,
                   historyVars, errVars, webVars>>

\* c.mu.RUnlock()
GM_RUnlock(w) ==
    /\ pc[w] = "gm_runlock"
    /\ mu' = [mu EXCEPT !.readers = @ \ {w}]
    /\ pc' = [pc EXCEPT ![w] = "gm_return"]
    /\ UNCHANGED <<constructed, panicked, collectorVars, now, args, local, snap, entry,
                   calls, historyVars, errVars, webVars>>

\* return metricsCopy: the caller now holds the value.
GM_Return(w) ==
    /\ pc[w] = "gm_return"
    /\ snap' = [snap EXCEPT ![w] = <<local[w].metricsCopy>>]
    /\ local' = [local EXCEPT ![w] = NoLocal]
    /\ pc' = [pc EXCEPT ![w] = "idle"]
    /\ UNCHANGED <<constructed, panicked, collectorVars, mu, now, args, entry, calls,
                   historyVars, errVars, webVars>>

\* ---------------------------------------------------------------- the caller's own writes
\* The caller assigns s.RequestLatencies[k] = v on the ServerMetrics value s it holds.
MutateSnapshotLatencies(w, budget, k, v) ==
    /\ CanCall(w, budget)
    /\ snap[w] # <<>>
    /\ mapHeap' = [mapHeap EXCEPT ![snap[w][1].RequestLatencies] = MapPut(@, k, v)]
    /\ calls' = [calls EXCEPT !.mutations = @ + 1]
    /\ UNCHANGED <<constructed, panicked, metrics, startTime, errorBuffer, bufferSize,
                   activeConnections, mu, now, pc, args, local, snap, entry, historyVars,
                   errVars, webVars>>

\* The caller assigns s.LastErrors[i].Message = message on the value s it holds.
MutateSnapshotErrors(w, budget, i, message) ==
    /\ CanCall(w, budget)
    /\ snap[w] # <<>>
    /\ i \in 1 .. Len(snap[w][1].LastErrors)
    /\ snap' = [snap EXCEPT ![w][1].LastErrors[i].Message = message]
    /\ calls' = [calls EXCEPT !.mutations = @ + 1]
    /\ UNCHANGED <<constructed, panicked, collectorVars, mu, now, pc, args, local, entry,
                   historyVars, errVars, webVars>>

\* ---------------------------------------------------------------- specifications
\* One statement of a method body, by worker w.
Step(w, keep) ==
    \/ RR_Lock(w) \/ RR_LoadTotal(w) \/ RR_StoreTotal(w) \/ RR_LoadFailed(w)
    \/ RR_StoreFailed(w) \/ RR_Latency(w) \/ RR_Unlock(w, keep)
    \/ RC_Lock(w) \/ RC_Track(w) \/ RC_LoadTotal(w) \/ RC_StoreTotal(w) \/ RC_Count(w)
    \/ RC_Unlock(w, keep)
    \/ RCF_Lock(w) \/ RCF_Load(w) \/ RCF_Store(w) \/ RCF_Unlock(w, keep)
    \/ RE_Lock(w) \/ RE_Build(w) \/ RE_Guard(w) \/ RE_Evict(w) \/ RE_Append(w)
    \/ RE_Unlock(w, keep)
    \/ GM_RLock(w) \/ GM_Gauges(w) \/ GM_Copy(w) \/ GM_Errors(w) \/ GM_RUnlock(w)
    \/ GM_Return(w)

\* A single caller: every call runs to completion before the next one starts, and all
\* of them within one reading of the clock.
Next ==
    \/ \E n \in BufferSizes : NewCollector(n)
    \/ \E id \in Identifiers, l \in Latencies, ok \in BOOLEAN :
           CallRecordRequest(Caller, MaxOps, id, l, ok)
    \/ \E id \in ConnectionIDs, a \in BOOLEAN : CallRecordConnection(Caller, MaxOps, id, a)
    \/ CallRecordConnectionFailure(Caller, MaxOps)
    \/ \E c \in Components, m \in Messages, s \in Stacks :
           CallRecordError(Caller, MaxOps, c, m, s)
    \/ CallGetCurrentMetrics(Caller, MaxOps)
    \/ \E k \in Identifiers : MutateSnapshotLatencies(Caller, MaxOps, k, 1)
    \/ \E i \in 1 .. MaxBufferSize : MutateSnapshotErrors(Caller, MaxOps, i, "overwritten")
    \/ Step(Caller, FALSE)

Spec == Init /\ [][Next]_vars

\* One worker per request: the workers' calls interleave statement by statement.
NextConc ==
    \/ \E n \in ConcBufferSizes : NewCollector(n)
    \/ Tick
    \/ \E w \in Workers :
        \/ \E id \in ConcIdentifiers, l \in ConcLatencies, ok \in BOOLEAN :
               CallRecordRequest(w, MaxConcOps, id, l, ok)
        \/ \E id \in ConcConnectionIDs, a \in BOOLEAN :
               CallRecordConnection(w, MaxConcOps, id, a)
        \/ CallRecordConnectionFailure(w, MaxConcOps)
        \/ \E c \in Components, m \in ConcMessages, s \in Stacks :
               CallRecordError(w, MaxConcOps, c, m, s)
        \/ CallGetCurrentMetrics(w, MaxConcOps)
        \/ Step(w, TRUE)

SpecConc == Init /\ [][NextConc]_vars

\* Workers on a collector with or without an error history.  A goroutine that can run
\* is eventually run: each worker's next statement is taken if it stays enabled.
LiveBufferSizes == {0, 1}
LiveConnectionIDs == {"c1"}

NextLive ==
    \/ \E n \in LiveBufferSizes : NewCollector(n)
    \/ \E w \in Workers :
        \/ \E id \in ConcIdentifiers, l \in ConcLatencies, ok \in BOOLEAN :
               CallRecordRequest(w, MaxConcOps, id, l, ok)
        \/ \E id \in LiveConnectionIDs, a \in BOOLEAN :
               CallRecordConnection(w, MaxConcOps, id, a)
        \/ CallRecordConnectionFailure(w, MaxConcOps)
        \/ \E c \in Components, m \in ConcMessages, s \in Stacks :
               CallRecordError(w, MaxConcOps, c, m, s)
        \/ CallGetCurrentMetrics(w, MaxConcOps)
        \/ Step(w, FALSE)

SpecLive ==
    Init /\ [][NextLive]_vars /\ \A w \in Workers : WF_vars(Step(w, FALSE))

\* ================================================================ apperrors
\* Model of internal/apperrors/errors.go: the error constructors, WithContext and
\* MapAppErrorToJSONRPC.  A Go string is a sequence of tokens, so that formatting is
\* concatenation.  An error value is the dynamic type and the payload of a Go `error`
\* interface value; BaseError structs and maps live on heaps, so that two references
\* to the same object see each other's writes.

\* ---------------------------------------------------------------- error codes
\* The const block of lines 20-51.  iota is the index of the ConstSpec within the
\* block, so it is 4 at ErrResourceNotFound and 7 at ErrProtocolInvalid.
ErrAuthFailure == 1000 + 0
ErrAuthExpired == 1000 + 1
ErrAuthInvalid == 1000 + 2
ErrAuthMissing == 1000 + 3
ErrResourceNotFound == 3000 + 4
ErrResourceForbidden == 3000 + 5
ErrResourceInvalid == 3000 + 6
ErrProtocolInvalid == 4000 + 7
ErrProtocolUnsupported == 4000 + 8
ErrParseError == -32700
ErrInvalidRequest == -32600
ErrMethodNotFound == -32601
ErrInvalidParams == -32602
ErrInternalError == -32603
ErrRequestSequence == -32001
ErrServiceNotFound == -32002

\* ---------------------------------------------------------------- inputs
\* Codes handed to the category constructors: inside and outside each range, the
\* named constants, the first codes of each range, and codes of the JSON-RPC range.
SuppliedCodes ==
    {999, 1000, 1003, 1500, 2000, 3000, 3004, 3006, 4000, 4007, 4008, 5000,
     0 - 32050, 0 - 32001}
DomainMessages == {<<"token expired for bob">>}
ForeignMessages == {<<"boom">>}
WrapPrefixes == {<<"handler">>}
ContextKeys == {"uri", "secret"}
ContextValues == {<<"/a">>}
WrittenValues == {<<"changed">>}
DataKeys == {"detail", "extra"}

\* ---------------------------------------------------------------- error values
NilError == [t |-> "nil"]

\* errors.New(msg), an error of a foreign package
ForeignError(msg) == [t |-> "errorString", msg |-> msg]

\* fmt.Errorf("prefix: %w", err), a foreign wrapper
Wrapf(prefix, err) == [t |-> "wrapError", prefix |-> prefix, inner |-> err]

\* errors.WithStack(err) of cockroachdb/errors: nil for a nil err
WithStack(err) == IF err = NilError THEN NilError ELSE [t |-> "withStack", inner |-> err]

\* A pointer of static type *type to (the BaseError embedded in) the struct obj.
Pointer(type, obj) == [t |-> "ptr", type |-> type, obj |-> obj]

NilContext == 0
EmptyContext == [k \in {} |-> <<>>]

\* fmt.Sprintf("%T", err)
TypeName(err) ==
    CASE err.t = "nil" -> <<"<nil>">>
      [] err.t = "errorString" -> <<"*errors.errorString">>
      [] err.t = "wrapError" -> <<"*fmt.wrapError">>
      [] err.t = "withStack" -> <<"*withstack.withStack">>
      [] err.t = "ptr" -> <<"*apperrors.", err.type>>

\* errbase.UnwrapOnce: the Unwrap() of a wrapper, BaseError.Unwrap (promoted to the
\* embedding types) for a domain error, nil for a leaf.
UnwrapOnce(err) ==
    CASE err.t \in {"wrapError", "withStack"} -> err.inner
      [] err.t = "ptr" -> baseErrs[err.obj].Cause
      [] OTHER -> NilError

RECURSIVE ErrorString(_)
\* err.Error(); BaseError.Error for a domain error.  Not defined for a nil error.
ErrorString(err) ==
    CASE err.t = "errorString" -> err.msg
      [] err.t = "wrapError" -> err.prefix \o <<": ">> \o ErrorString(err.inner)
      [] err.t = "withStack" -> ErrorString(err.inner)
      [] err.t = "ptr" ->
            LET e == baseErrs[err.obj]
                head == <<"AppError (Code: ", ToString(e.Code), "): ">> \o e.Message
            IN  IF e.Cause # NilError THEN head \o <<": ">> \o ErrorString(e.Cause)
                ELSE head

\* reflect.TypeOf(err).AssignableTo(*BaseError): the dynamic type is *BaseError itself.
\* Embedding is not subtyping: *AuthError is not assignable to *BaseError.
AssignableToBaseError(err) == err.t = "ptr" /\ err.type = "BaseError"

RECURSIVE As(_)
\* errors.As(err, &baseErr): the first error of the chain assignable to *BaseError
\* (its struct reference), or 0 when there is none.
As(err) ==
    IF err = NilError THEN 0
    ELSE IF AssignableToBaseError(err) THEN err.obj
    ELSE As(UnwrapOnce(err))

\* ---------------------------------------------------------------- MapAppErrorToJSONRPC
\* The branch taken when errors.As finds no *BaseError (lines 213-223): the data map
\* holds two entries, so the `len(data) == 0` clean-up never applies.
\* err.Error() on a nil interface value is a nil dereference: the call panics.
MapForeign(err) ==
    IF err = NilError
    THEN [panic |-> TRUE]
    ELSE [panic |-> FALSE,
          code |-> ErrInternalError,
          message |-> <<"An internal server error occurred.">>,
          data |-> ("goErrorType" :> TypeName(err)) @@ ("detail" :> ErrorString(err))]

\* The switch on baseErr.Code (lines 227-294): the wire code, the fixed message and
\* whether data["internalCode"] is set; data["detail"] is set in every case.
SwitchOnCode(c) ==
    CASE c = ErrParseError ->
            [code |-> ErrParseError, internal |-> FALSE,
             message |-> <<"Parse error. The JSON received is not a valid JSON.">>]
      [] c = ErrInvalidRequest ->
            [code |-> ErrInvalidRequest, internal |-> FALSE,
             message |-> <<"Invalid Request. The JSON sent is not a valid Request object.">>]
      [] c = ErrMethodNotFound ->
            [code |-> ErrMethodNotFound, internal |-> FALSE,
             message |-> <<"Method not found. The method does not exist / is not available.">>]
      [] c = ErrInvalidParams ->
            [code |-> ErrInvalidParams, internal |-> FALSE,
             message |-> <<"Invalid params. Invalid method parameter(s).">>]
      [] c = ErrInternalError ->
            [code |-> ErrInternalError, internal |-> FALSE,
             message |-> <<"Internal error. Internal JSON-RPC error.">>]
      [] c = ErrServiceNotFound ->
            [code |-> ErrServiceNotFound, internal |-> FALSE,
             message |-> <<"Service unavailable. A required internal component or service was not found.">>]
      [] c = ErrRequestSequence ->
            [code |-> ErrRequestSequence, internal |-> FALSE,
             message |-> <<"Invalid Request Sequence. The request is out of order or invalid for the current state.">>]
      [] c = ErrResourceNotFound ->
            [code |-> 0 - 32000, internal |-> FALSE,
             message |-> <<"Resource not found. The requested resource does not exist.">>]
      [] c = ErrResourceInvalid ->
            [code |-> 0 - 32003, internal |-> FALSE,
             message |-> <<"Invalid resource identifier or format.">>]
      [] c = ErrResourceForbidden ->
            [code |-> 0 - 32004, internal |-> FALSE,
             message |-> <<"Access to the resource is forbidden.">>]
      [] c \in {ErrAuthFailure, ErrAuthInvalid, ErrAuthExpired, ErrAuthMissing} ->
            [code |-> 0 - 32010, internal |-> FALSE,
             message |-> <<"Authentication required or failed.">>]
      [] c = ErrProtocolInvalid ->
            [code |-> ErrInvalidRequest, internal |-> TRUE,
             message |-> <<"Invalid Request (API Protocol Error).">>]
      [] c = ErrProtocolUnsupported ->
            [code |-> ErrMethodNotFound, internal |-> TRUE,
             message |-> <<"Unsupported Operation (API Protocol Error).">>]
      [] OTHER ->
            [code |-> ErrInternalError, internal |-> TRUE,
             message |-> <<"An unspecified internal application error occurred.">>]

\* Variant: every context key is copied into the data.
IsSafeKeyAny(k) == TRUE

\* The inner switch on k (line 303): the keys that may be exposed to the client.
IsSafeKey(k) ==
    k \in {"uri", "toolName", "method", "serviceName", "parameter_name", "query_path",
           "requested_path"}

\* The loop over baseErr.Context (lines 298-311): safe keys are added to data unless data
\* has the key already.  ctx is the contents of the map, the empty map for a nil one.
MergeContext(data, ctx) ==
    LET added == {k \in DOMAIN ctx : IsSafeKey(k) /\ k \notin DOMAIN data}
    IN  [k \in (DOMAIN data) \cup added |-> IF k \in DOMAIN data THEN data[k] ELSE ctx[k]]

\* The contents of a context reference: ranging over a nil map visits nothing.
ContextOf(ref) == IF ref = NilContext THEN EmptyContext ELSE ctxHeap[ref]

\* Variant: the domain error's own code is used as the wire code.
MapBaseErrorRawCode(e) ==
    LET sw == SwitchOnCode(e.Code)
        detail == "detail" :> e.Message
        data == IF sw.internal THEN detail @@ ("internalCode" :> e.Code) ELSE detail
    IN  [panic |-> FALSE,
         code |-> e.Code,
         message |-> sw.message,
         data |-> MergeContext(data, ContextOf(e.Context))]

\* The branch taken when errors.As found the BaseError e (lines 227-318).
MapBaseError(e) ==
    LET sw == SwitchOnCode(e.Code)
        detail == "detail" :> e.Message
        data == IF sw.internal THEN detail @@ ("internalCode" :> e.Code) ELSE detail
    IN  [panic |-> FALSE,
         code |-> sw.code,
         message |-> sw.message,
         data |-> MergeContext(data, ContextOf(e.Context))]

\* Variant: the error's own text is used as the top-level message.
MapAppErrorToJSONRPCLeaky(err) ==
    LET found == As(err)
        r == IF found = 0 THEN MapForeign(err) ELSE MapBaseError(baseErrs[found])
    IN  IF r.panic THEN r ELSE [r EXCEPT !.message = ErrorString(err)]

\* MapAppErrorToJSONRPC(err): what the call returns, the data map by its contents.
MapAppErrorToJSONRPC(err) ==
    LET found == As(err)
    IN  IF found = 0 THEN MapForeign(err) ELSE MapBaseError(baseErrs[found])

\* ---------------------------------------------------------------- the caller
\* Everything of the collector, which the apperrors calls leave alone.
collectorState ==
    <<constructed, collectorVars, mu, now, pc, args, local, snap, entry, calls, historyVars>>

Call(op, code, key) == [op |-> op, code |-> code, key |-> key]

\* The maps a caller may build to pass as context.
ContextChoices == UNION {[S -> ContextValues] : S \in SUBSET ContextKeys}

\* The caller has built nothing and mapped nothing yet.
Building == ~panicked /\ mapped = <<>>

\* context := map[string]interface{}{...} in the caller
MakeContext(m) ==
    /\ Building
    /\ callerContext = NilContext
    /\ baseErrs = <<>>
    /\ ctxHeap' = Append(ctxHeap, m)
    /\ callerContext' = Len(ctxHeap) + 1
    /\ lastCall' = Call("MakeContext", 0, "")
    /\ UNCHANGED <<held, baseErrs, mapped, panicked, collectorState, webVars>>

\* err := errors.New(msg) in the caller
ErrorsNew(msg) ==
    /\ Building
    /\ held = NilError
    /\ held' = ForeignError(msg)
    /\ lastCall' = Call("errors.New", 0, "")
    /\ UNCHANGED <<callerContext, baseErrs, ctxHeap, mapped, panicked, collectorState, webVars>>

RECURSIVE WrapDepth(_)
WrapDepth(err) == IF err.t = "wrapError" THEN 1 + WrapDepth(err.inner) ELSE 0

\* err = fmt.Errorf("prefix: %w", err) in the caller
Wrap(prefix) ==
    /\ Building
    /\ held # NilError
    /\ WrapDepth(held) < MaxWraps
    /\ held' = Wrapf(prefix, held)
    /\ lastCall' = Call("fmt.Errorf", 0, "")
    /\ UNCHANGED <<callerContext, baseErrs, ctxHeap, mapped, panicked, collectorState, webVars>>

\* ---------------------------------------------------------------- constructors
\* return &T{BaseError: BaseError{Code: code, Message: message,
\*                                Cause: errors.WithStack(cause), Context: context}}
\* with the caller's held error as cause and the caller's map as context: the struct
\* stores the map reference it was handed.
Construct(type, op, supplied, code, message) ==
    /\ Building
    /\ baseErrs = <<>>
    /\ baseErrs' = Append(baseErrs, [Type |-> type, Code |-> code, Message |-> message,
                                     Cause |-> WithStack(held), Context |-> callerContext])
    /\ held' = Pointer(type, Len(baseErrs) + 1)
    /\ lastCall' = Call(op, supplied, "")
    /\ UNCHANGED <<callerContext, ctxHeap, mapped, panicked, collectorState, webVars>>

\* if code < 1000 || code > 1999 { code = ErrAuthFailure }
AuthCode(code) == IF code < 1000 \/ code > 1999 THEN ErrAuthFailure ELSE code

NewAuthError(code, message) ==
    Construct("AuthError", "NewAuthError", code, AuthCode(code), message)

\* if code < 3000 || code > 3999 { code = ErrResourceNotFound }
ResourceCode(code) == IF code < 3000 \/ code > 3999 THEN ErrResourceNotFound ELSE code

NewResourceError(code, message) ==
    Construct("ResourceError", "NewResourceError", code, ResourceCode(code), message)

\* NewProtocolError stores the code it is handed: there is no range check.
ProtocolCode(code) == code

NewProtocolError(code, message) ==
    Construct("ProtocolError", "NewProtocolError", code, ProtocolCode(code), message)

NewInvalidParamsError(message) ==
    Construct("InvalidParamsError", "NewInvalidParamsError", 0, ErrInvalidParams, message)

NewMethodNotFoundError(message) ==
    Construct("MethodNotFoundError", "NewMethodNotFoundError", 0, ErrMethodNotFound, message)

NewServiceNotFoundError(message) ==
    Construct("ServiceNotFoundError", "NewServiceNotFoundError", 0, ErrServiceNotFound,
              message)

NewInternalError(message) ==
    Construct("InternalError", "NewInternalError", 0, ErrInternalError, message)

NewParseError(message) ==
    Construct("ParseError", "NewParseError", 0, ErrParseError, message)

NewInvalidRequestError(message) ==
    Construct("InvalidRequestError", "NewInvalidRequestError", 0, ErrInvalidRequest, message)

\* ---------------------------------------------------------------- WithContext
\* e.WithContext(key, value) on the domain error the caller holds (the method of
\* *BaseError, promoted to the embedding types): the map is created if nil, written in
\* place, and the *BaseError is returned.
WithContext(key, value) ==
    /\ Building
    /\ held.t = "ptr"
    /\ LET e == baseErrs[held.obj]
       IN  IF e.Context = NilContext
           THEN /\ ctxHeap' = Append(ctxHeap, key :> value)
                /\ baseErrs' = [baseErrs EXCEPT ![held.obj].Context = Len(ctxHeap) + 1]
           ELSE /\ ctxHeap' = [ctxHeap EXCEPT ![e.Context] = MapPut(@, key, value)]
                /\ UNCHANGED baseErrs
    /\ held' = Pointer("BaseError", held.obj)
    /\ lastCall' = Call("WithContext", 0, key)
    /\ UNCHANGED <<callerContext, mapped, panicked, collectorState, webVars>>

\* context[key] = value in the caller, after it has handed the map to a constructor
CallerWritesContext(key, value) ==
    /\ Building
    /\ baseErrs # <<>>
    /\ callerContext # NilContext
    /\ ctxHeap' = [ctxHeap EXCEPT ![callerContext] = MapPut(@, key, value)]
    /\ lastCall' = Call("context[key] = value", 0, key)
    /\ UNCHANGED <<held, callerContext, baseErrs, mapped, panicked, collectorState, webVars>>

\* ---------------------------------------------------------------- the mapping call
\* code, message, data := MapAppErrorToJSONRPC(err) with the error the caller holds.
\* data is a map made by the call (line 209), nil when it would be empty.
CallMapAppErrorToJSONRPC ==
    /\ Building
    /\ LET r == MapAppErrorToJSONRPC(held)
       IN  IF r.panic
           THEN /\ panicked' = TRUE
                /\ mapped' = <<[panic |-> TRUE, code |-> 0, message |-> <<>>,
                                data |-> NilContext]>>
                /\ UNCHANGED ctxHeap
           ELSE /\ IF DOMAIN r.data = {}
                   THEN /\ mapped' = <<[r EXCEPT !.data = NilContext]>>
                        /\ UNCHANGED ctxHeap
                   ELSE /\ mapped' = <<[r EXCEPT !.data = Len(ctxHeap) + 1]>>
                        /\ ctxHeap' = Append(ctxHeap, r.data)
                /\ UNCHANGED panicked
    /\ lastCall' = Call("MapAppErrorToJSONRPC", 0, "")
    /\ UNCHANGED <<held, callerContext, baseErrs, collectorState, webVars>>

\* data[key] = value in the caller, on the map the mapping call returned
CallerWritesData(key, value) ==
    /\ ~panicked
    /\ mapped # <<>>
    /\ mapped[1].data # NilContext
    /\ ctxHeap' = [ctxHeap EXCEPT ![mapped[1].data] = MapPut(@, key, value)]
    /\ lastCall' = Call("data[key] = value", 0, key)
    /\ UNCHANGED <<held, callerContext, baseErrs, mapped, panicked, collectorState, webVars>>

\* A caller that builds errors, wraps them, adds context and maps them.
NextErr ==
    \/ \E m \in ContextChoices : MakeContext(m)
    \/ \E msg \in ForeignMessages : ErrorsNew(msg)
    \/ \E p \in WrapPrefixes : Wrap(p)
    \/ \E c \in SuppliedCodes, msg \in DomainMessages : NewAuthError(c, msg)
    \/ \E c \in SuppliedCodes, msg \in DomainMessages : NewResourceError(c, msg)
    \/ \E c \in SuppliedCodes, msg \in DomainMessages : NewProtocolError(c, msg)
    \/ \E msg \in DomainMessages : NewInvalidParamsError(msg)
    \/ \E msg \in DomainMessages : NewMethodNotFoundError(msg)
    \/ \E msg \in DomainMessages : NewServiceNotFoundError(msg)
    \/ \E msg \in DomainMessages : NewInternalError(msg)
    \/ \E msg \in DomainMessages : NewParseError(msg)
    \/ \E msg \in DomainMessages : NewInvalidRequestError(msg)
    \/ \E k \in ContextKeys, v \in WrittenValues : WithContext(k, v)
    \/ \E k \in ContextKeys, v \in WrittenValues : CallerWritesContext(k, v)
    \/ CallMapAppErrorToJSONRPC
    \/ \E k \in DataKeys, v \in WrittenValues : CallerWritesData(k, v)

SpecErr == Init /\ [][NextErr]_vars

\* ---------------------------------------------------------------- logging
\* Everything outside the web service, which its steps leave alone.
restOfProgram == <<panicked, collectorState, errVars>>

\* A WithField that adds the pair to the receiver and returns the receiver.
WithFieldInPlace(heap, g, l, key, value) ==
    IF heap[l].kind = "noop"
    THEN [heap |-> heap, ref |-> l]
    ELSE [heap |-> [heap EXCEPT ![l].attrs = Append(@, <<key, value>>)], ref |-> l]

\* l.WithField(key, value): the NoopLogger returns itself, a SlogLogger returns a
\* new SlogLogger whose attributes are the receiver's followed by the pair.
WithField(heap, g, l, key, value) ==
    IF heap[l].kind = "noop"
    THEN [heap |-> heap, ref |-> l]
    ELSE LET new == NewRef(heap, g)
         IN  [heap |-> (new :> [heap[l] EXCEPT !.attrs = Append(@, <<key, value>>)]) @@ heap,
              ref |-> new]

\* The records one logging call writes: a NoopLogger writes nothing, a
\* SlogLogger writes the record if its handler's level admits it.
Written(heap, l, level, msg) ==
    IF heap[l].kind = "slog" /\ LevelRank[level] >= LevelRank[heap[l].level]
    THEN <<[level |-> level, msg |-> msg, attrs |-> heap[l].attrs]>>
    ELSE <<>>

\* SetDefaultLogger(logger): the value defaultLogger gets.
SetDefaultLogger(logger) == IF logger # NilLogger THEN logger ELSE noop

\* SetupDefaultLogger(level), called at startup before any request is handled.
SetupDefaultLogger(level) ==
    /\ defaultLogger = noop
    /\ baseLogger = NilLogger
    /\ \A r \in Requests : req[r].pc = "new"
    /\ LET logger == NewRef(loggers, MainGoroutine)
       IN  /\ loggers' = (logger :> [kind |-> "slog", level |-> level, attrs |-> <<>>])
                             @@ loggers
           /\ defaultLogger' = SetDefaultLogger(logger)
    /\ UNCHANGED <<baseLogger, req, restOfProgram>>

\* GetLogger(name); defaultLogger is never nil, so its nil branch assigns nothing.
GetLogger(heap, g, dflt, name) ==
    WithField(heap, g, IF dflt = NilLogger THEN noop ELSE dflt, "component", name)

\* ---------------------------------------------------------------- Tracing
\* main: appLog = logging.GetLogger("hello-tool"); middleware.Tracing(appLog)
Tracing ==
    /\ baseLogger = NilLogger
    /\ \A r \in Requests : req[r].pc = "new"
    /\ LET appLog == GetLogger(loggers, MainGoroutine, defaultLogger, "hello-tool")
       IN  /\ loggers' = appLog.heap
           /\ baseLogger' = appLog.ref
    /\ UNCHANGED <<defaultLogger, req, restOfProgram>>

\* Requests are received in the order of their numbers.
Next_Request(r) == req[r].pc = "new" /\ (IF r = 1 THEN TRUE ELSE req[r - 1].pc # "new")

\* The server hands a request to the handler that Tracing returned.  What the
\* request carries is drawn where the code reads it.
Receive(r) ==
    /\ Next_Request(r)
    /\ baseLogger # NilLogger
    /\ req' = [req EXCEPT ![r] = [@ EXCEPT !.pc = "tr_traceid", !.traced = TRUE]]
    /\ UNCHANGED <<defaultLogger, loggers, baseLogger, restOfProgram>>

\* A caller (a test) calls a handler directly, with a request whose context is
\* the background context.
CallHandler(r, route) ==
    /\ Next_Request(r)
    /\ req' = [req EXCEPT ![r] = [@ EXCEPT !.pc = "h_logger", !.route = route]]
    /\ UNCHANGED <<defaultLogger, loggers, baseLogger, restOfProgram>>

\* A Tracing that leaves the UUID out of the id.
GeneratedWithoutUUID(u) == <<GeneratedPrefix>>

\* fmt.Sprintf("generated-%s", uuid.New().String())
Generated(u) == <<GeneratedPrefix, u>>

\* A Tracing that never looks at the inbound header.
TraceIDForAlwaysGenerated(inbound, u) == Generated(u)

\* The id Tracing takes for a request: the inbound value, or a generated one.
TraceIDFor(inbound, u) == IF inbound = EmptyString THEN Generated(u) ELSE inbound

\* traceID := r.Header.Get(HeaderCloudTraceContext); if traceID == "" { ... }
TR_TraceID(r, inbound, u) ==
    /\ req[r].pc = "tr_traceid"
    /\ req' = [req EXCEPT ![r] = [@ EXCEPT !.pc = "tr_header",
                   !.inbound = inbound,
                   !.uuid = IF inbound = EmptyString THEN <<u>> ELSE <<>>,
                   !.traceID = TraceIDFor(inbound, u)]]
    /\ UNCHANGED <<defaultLogger, loggers, baseLogger, restOfProgram>>

\* w.Header().Set(HeaderTraceID, traceID)
TR_SetHeader(r) ==
    /\ req[r].pc = "tr_header"
    /\ req' = [req EXCEPT ![r] = [@ EXCEPT !.pc = "tr_context",
                   !.header = (HeaderTraceID :> req[r].traceID) @@ @]]
    /\ UNCHANGED <<defaultLogger, loggers, baseLogger, restOfProgram>>

\* A Tracing that hands the base logger on as it is.
RequestLoggerIsBase(heap, g, base, traceID) == [heap |-> heap, ref |-> base]

\* The logger Tracing derives for a request.
RequestLogger(heap, g, base, traceID) == WithField(heap, g, base, "trace_id", traceID)

\* ctx := context.WithValue(r.Context(), TraceIDContextKey, traceID)
\* requestLogger := baseLogger.WithField("trace_id", traceID)
\* ctx = context.WithValue(ctx, LoggerContextKey, requestLogger)
TR_Context(r) ==
    /\ req[r].pc = "tr_context"
    /\ LET requestLogger == RequestLogger(loggers, r, baseLogger, req[r].traceID)
       IN  /\ loggers' = requestLogger.heap
           /\ req' = [req EXCEPT ![r] = [@ EXCEPT !.pc = "tr_serve",
                          !.ctx = [traceID |-> <<req[r].traceID>>,
                                   logger |-> <<requestLogger.ref>>]]]
    /\ UNCHANGED <<defaultLogger, baseLogger, restOfProgram>>

\* next.ServeHTTP(w, r.WithContext(ctx)): the mux calls the handler of the
\* request's route; served keeps the response headers as they are at that moment.
TR_Serve(r, route) ==
    /\ req[r].pc = "tr_serve"
    /\ req' = [req EXCEPT ![r] = [@ EXCEPT !.pc = "h_logger", !.route = route,
                   !.served = <<req[r].header>>]]
    /\ UNCHANGED <<defaultLogger, loggers, baseLogger, restOfProgram>>

\* The fallback of GetLoggerFromContext.
FallbackLogger(heap, g, dflt) ==
    LET fallbackLogger == GetLogger(heap, g, dflt, "context_logger_fallback")
    IN  [heap |-> fallbackLogger.heap, ref |-> fallbackLogger.ref,
         written |-> Written(fallbackLogger.heap, fallbackLogger.ref, "warn",
                             "Logger not found in context, using fallback.")]

\* A GetLoggerFromContext that does not look into the context.
GetLoggerFromContextAlwaysFallback(heap, g, dflt, ctx) == FallbackLogger(heap, g, dflt)

\* GetLoggerFromContext(ctx): the logger returned, the logger heap afterwards
\* and the records written on the way.
GetLoggerFromContext(heap, g, dflt, ctx) ==
    IF ctx.logger # <<>> /\ ctx.logger[1] # NilLogger
    THEN [heap |-> heap, ref |-> ctx.logger[1], written |-> <<>>]
    ELSE FallbackLogger(heap, g, dflt)

\* GetTraceIDFromContext(ctx)
GetTraceIDFromContext(ctx) == IF ctx.traceID = <<>> THEN EmptyString ELSE ctx.traceID[1]

\* ---------------------------------------------------------------- handlers
HandlerName(route) == IF route = "/hello" THEN "helloHandler" ELSE "healthHandler"

\* reqLogger := middleware.GetLoggerFromContext(r.Context()).WithField("handler", ...)
\* and, in helloHandler, reqLogger.Info("Received request", ...)
H_GetLogger(r) ==
    /\ req[r].pc = "h_logger"
    /\ LET found == GetLoggerFromContext(loggers, r, defaultLogger, req[r].ctx)
           reqLogger == WithField(found.heap, r, found.ref, "handler",
                                  HandlerName(req[r].route))
           received == IF req[r].route = "/hello"
                       THEN Written(reqLogger.heap, reqLogger.ref, "info", "Received request")
                       ELSE <<>>
       IN  /\ loggers' = reqLogger.heap
           /\ req' = [req EXCEPT ![r] = [@ EXCEPT !.pc = "h_respond",
                          !.fromCtx = found.ref, !.reqLogger = reqLogger.ref,
                          !.emitted = @ \o found.written \o received]]
    /\ UNCHANGED <<defaultLogger, baseLogger, restOfProgram>>

\* What json.Encoder writes for one piece of a string: it escapes "<".
EscapePiece(c) == IF c = "<" THEN "\\u003c" ELSE c
UnescapePiece(c) == IF c = "\\u003c" THEN "<" ELSE c

\* json.NewEncoder(w).Encode(payload), the payload a struct of strings.
Encode(payload) ==
    [k \in DOMAIN payload |-> [i \in DOMAIN payload[k] |-> EscapePiece(payload[k][i])]]

\* What a client gets back when it decodes a body.
Decode(body) ==
    [k \in DOMAIN body |-> [i \in DOMAIN body[k] |-> UnescapePiece(body[k][i])]]

\* The fields of a struct that are written: an omitempty field only if not "".
OmitEmpty(key, value) == IF value = EmptyString THEN <<>> ELSE (key :> value)

\* respondWithJSON(l, w, statusCode, payload): the request afterwards.  Encoding
\* a struct of strings does not fail.
respondWithJSON(q, statusCode, payload) ==
    [q EXCEPT !.header = ("Content-Type" :> <<"application/json">>) @@ @,
              !.response = Append(@, [status |-> statusCode, body |-> Encode(payload)])]

\* respondWithError(l, w, statusCode, clientMessage, clientDetails, internalErr)
respondWithError(heap, q, statusCode, clientMessage, clientDetails) ==
    respondWithJSON(
        [q EXCEPT !.emitted = @ \o Written(heap, q.reqLogger, "error",
                                            "Server-side error occurred")],
        statusCode,
        ("error" :> clientMessage) @@ OmitEmpty("details", clientDetails))

StatusOK == 200
StatusBadRequest == 400

\* fmt.Sprintf("Hello, %s, from your Go Cloud Run service!", name)
Greeting(name) == <<"Hello, ">> \o name \o <<", from your Go Cloud Run service!">>

\* A helloHandler without the check of the name.
helloHandlerAlwaysGreets(heap, q) ==
    respondWithJSON(q, StatusOK, [message |-> Greeting(q.name)])

\* helloHandler after its first log line: the request afterwards.
helloHandler(heap, q) ==
    IF q.name = EmptyString
    THEN respondWithError(heap, q, StatusBadRequest,
                          <<"Invalid Request Parameter">>,
                          <<"The 'name' query parameter is required.">>)
    ELSE [respondWithJSON(q, StatusOK, [message |-> Greeting(q.name)])
             EXCEPT !.emitted = @ \o Written(heap, q.reqLogger, "info",
                                            "Successfully processed /hello request")]

\* healthHandler after it has its logger: the request afterwards.
healthHandler(q) ==
    respondWithJSON(q, StatusOK,
        ("status" :> <<"OK">>) @@ OmitEmpty("traceId", GetTraceIDFromContext(q.ctx)))

\* The handler runs to its return, and with it the handler Tracing returned;
\* helloHandler reads the name parameter.
H_Respond(r, name) ==
    /\ req[r].pc = "h_respond"
    /\ req[r].route = "/health" => name = EmptyString
    /\ LET q == [req[r] EXCEPT !.name = name]
           after == IF q.route = "/hello" THEN helloHandler(loggers, q)
                    ELSE healthHandler(q)
       IN  req' = [req EXCEPT ![r] = [after EXCEPT !.pc = "done"]]
    /\ UNCHANGED <<defaultLogger, loggers, baseLogger, restOfProgram>>

NextWeb ==
    \/ \E level \in LevelNames : SetupDefaultLogger(level)
    \/ Tracing
    \/ \E r \in Requests :
          \/ Receive(r)
          \/ \E route \in Routes : CallHandler(r, route)
          \/ \E inbound \in InboundValues, u \in UUIDs : TR_TraceID(r, inbound, u)
          \/ TR_SetHeader(r)
          \/ TR_Context(r)
          \/ \E route \in Routes : TR_Serve(r, route)
          \/ H_GetLogger(r)
          \/ \E name \in Names : H_Respond(r, name)

SpecWeb == Init /\ [][NextWeb]_vars

\* ---------------------------------------------------------------- properties
Idle == \A w \in Workers : pc[w] = "idle"
NoWriterInside == mu.writer = NoWriter
Min(a, b) == IF a <= b THEN a ELSE b
LastN(s, n) == SubSeq(s, Len(s) - n + 1, Len(s))

\* C1: whenever no writer is inside a method (that is, after any number of completed
\* Record* calls, in any interleaving), ActiveConnections equals the number of ids in
\* the tracked active set, and every snapshot GetCurrentMetrics has built reports that
\* same number.
C1_ActiveConnectionsIsSetSize ==
    /\ (constructed /\ NoWriterInside) =>
           metrics.ActiveConnections = Cardinality(DOMAIN activeConnections)
    /\ \A w \in Workers :
           pc[w] = "gm_runlock" =>
               local[w].metricsCopy.ActiveConnections = Cardinality(DOMAIN activeConnections)

\* A snapshot reporting one active connection is built while another worker waits to
\* record a connection.
C1_Witness ==
    \E w \in Workers, v \in Workers :
        /\ pc[w] = "gm_runlock"
        /\ local[w].metricsCopy.ActiveConnections = 1
        /\ DOMAIN activeConnections = {"c1"}
        /\ pc[v] = "rc_lock"

\* C2: a snapshot is a deep copy: a caller's write into the RequestLatencies map or
\* the LastErrors slice of a snapshot it holds never changes the collector's state.
C2_SnapshotIsDeepCopy ==
    [][(calls.mutations' # calls.mutations) => (View' = View)]_vars

\* C3: a snapshot is immutable once returned: as long as a worker keeps the value it
\* holds, no step of any worker changes what that value reads as, its RequestLatencies
\* and LastErrors included.
C3_SnapshotIsImmutable ==
    [][\A w \in Workers :
           (snap[w] # <<>> /\ snap'[w] = snap[w]) =>
               (SnapView(snap[w][1]))' = SnapView(snap[w][1])]_vars

\* C4: after any sequence of completed RecordConnection calls, TotalConnections equals
\* the number of distinct connection ids ever recorded with active = true.
C4_TotalConnectionsCountsUniqueIds ==
    (constructed /\ NoWriterInside) => metrics.TotalConnections = Cardinality(everActive)

\* C5: when RecordConnection(id, true) has run its body, TotalConnections is one more
\* than at entry if id had never been recorded as active before, and TotalConnections
\* and ActiveConnections are what they were at entry if id was tracked at entry (the
\* case of a second RecordConnection(id, true) right after the first).
C5_FirstActivationCountsOnce ==
    \A w \in Workers :
        (pc[w] = "rc_unlock" /\ args[w].active) =>
            LET e == entry[w][1]
                id == args[w].connectionID
            IN  /\ id \notin e.seen =>
                       metrics.TotalConnections = e.view.TotalConnections + 1
                /\ id \in e.view.active =>
                       /\ metrics.TotalConnections = e.view.TotalConnections
                       /\ metrics.ActiveConnections = e.view.ActiveConnections

\* The second RecordConnection("c1", true) in a row has run its body and the total is 1.
C5_Witness ==
    /\ pc[Caller] = "rc_unlock"
    /\ args[Caller].active
    /\ args[Caller].connectionID = "c1"
    /\ "c1" \in entry[Caller][1].view.active
    /\ calls.RecordConnection = 2
    /\ metrics.TotalConnections = 1

\* C6: with a positive capacity N the error history never holds more than N entries,
\* and after m completed RecordError calls it is the last min(m, N) entries recorded,
\* in the order they were recorded.
C6_ErrorHistoryIsLastN ==
    (constructed /\ bufferSize > 0) =>
        /\ Len(errorBuffer) <= bufferSize
        /\ Idle => Len(recorded) = calls.RecordError
        /\ NoWriterInside =>
               errorBuffer = LastN(recorded, Min(Len(recorded), bufferSize))

\* Three errors went into a buffer of two: the first one recorded is gone.
C6_Witness ==
    /\ Idle
    /\ bufferSize = 2
    /\ Len(recorded) = 3
    /\ recorded[1].Message = "e1"
    /\ recorded[2].Message = "e2"
    /\ errorBuffer = <<recorded[2], recorded[3]>>

\* C7: with a non-positive capacity nothing fails: construction succeeds, RecordError
\* leaves the history empty, and every snapshot's error history is empty.
C7_NonPositiveCapacityNeverFails ==
    /\ ~panicked
    /\ (constructed /\ bufferSize <= 0) =>
           /\ errorBuffer = <<>>
           /\ \A w \in Workers : snap[w] # <<>> => snap[w][1].LastErrors = <<>>

\* C8: when RecordRequest(identifier, latencyMs, success) has run its body, the
\* identifier's estimate is latencyMs if the map had no entry for it at entry, and the
\* integer half of (old + latencyMs) otherwise; every other identifier's entry is as
\* it was at entry.
C8_LatencyIsTwoPointBlend ==
    \A w \in Workers :
        pc[w] = "rr_unlock" =>
            LET old == entry[w][1].view.RequestLatencies
                new == View.RequestLatencies
                id == args[w].identifier
                l == args[w].latencyMs
            IN  /\ DOMAIN new = (DOMAIN old) \cup {id}
                /\ id \notin DOMAIN old => new[id] = l
                /\ id \in DOMAIN old =>
                       /\ 2 * new[id] <= old[id] + l
                       /\ old[id] + l <= 2 * new[id] + 1
                /\ \A k \in (DOMAIN old) \ {id} : new[k] = old[k]

\* The third call of the sequence 100, 200, 0 for "x": the estimate goes from 150 to 75.
C8_Witness ==
    /\ pc[Caller] = "rr_unlock"
    /\ args[Caller].identifier = "x"
    /\ args[Caller].latencyMs = 0
    /\ calls.RecordRequest = 3
    /\ "x" \in DOMAIN entry[Caller][1].view.RequestLatencies
    /\ entry[Caller][1].view.RequestLatencies["x"] = 150
    /\ View.RequestLatencies["x"] = 75

\* C9: every snapshot, from the moment GetCurrentMetrics has built it, reads as the
\* collector's state after some whole number of completed write operations (counters,
\* latency map and error history), never as a partially applied one.
C9_SnapshotIsAtomic ==
    \A w \in Workers :
        /\ pc[w] \in {"gm_runlock", "gm_return"} =>
               SnapView(local[w].metricsCopy) \in committedViews
        /\ snap[w] # <<>> => SnapView(snap[w][1]) \in committedViews

\* C10: once every call has returned, TotalRequests is the number of RecordRequest
\* calls made, FailedRequests the number of those with success = false, and
\* FailedConnections the number of RecordConnectionFailure calls made.
C10_NoLostUpdates ==
    (constructed /\ Idle) =>
        /\ metrics.TotalRequests = calls.RecordRequest
        /\ metrics.FailedRequests = calls.failedRequests
        /\ metrics.FailedConnections = calls.RecordConnectionFailure

\* Two requests, one of them failed, and one connection failure have been recorded.
C10_Witness ==
    /\ Idle
    /\ metrics.TotalRequests = 2
    /\ metrics.FailedRequests = 1
    /\ metrics.FailedConnections = 1

\* C11: when RecordConnectionFailure has run its body, FailedConnections is exactly one
\* more than at entry and everything else the collector holds is what it was at entry:
\* the active set, ActiveConnections, TotalConnections, the request counters, the
\* latency map and the error history.
C11_ConnectionFailureFrame ==
    \A w \in Workers :
        pc[w] = "rcf_unlock" =>
            View = [entry[w][1].view EXCEPT !.FailedConnections = @ + 1]

\* The second RecordConnectionFailure has run its body on a collector that had already
\* recorded a request and a failure.
C11_Witness ==
    /\ pc[Caller] = "rcf_unlock"
    /\ entry[Caller][1].view.FailedConnections = 1
    /\ entry[Caller][1].view.TotalRequests = 1
    /\ metrics.FailedConnections = 2
    /\ metrics.TotalRequests = 1

\* C12: for each category constructor (NewAuthError, range 1000-1999; NewResourceError,
\* range 3000-3999; NewProtocolError, range 4000-4999), a supplied code outside the
\* category's range is never the code of the constructed error: the error carries the
\* category's default code (a code of the range), and construction does not fail.
C12_OutOfRangeCodeYieldsDefault ==
    LET supplied == lastCall.code
        stored == baseErrs[held.obj].Code
    IN  /\ (lastCall.op = "NewAuthError" /\ supplied \notin 1000 .. 1999) =>
               (~panicked /\ stored = ErrAuthFailure /\ stored # supplied)
        /\ (lastCall.op = "NewResourceError" /\ supplied \notin 3000 .. 3999) =>
               (~panicked /\ stored = ErrResourceNotFound /\ stored # supplied)
        /\ (lastCall.op = "NewProtocolError" /\ supplied \notin 4000 .. 4999) =>
               (~panicked /\ stored \in 4000 .. 4999 /\ stored # supplied)

\* The mapping call has returned (it did not panic); r is what it returned.
Returned == mapped # <<>> /\ ~mapped[1].panic

\* The JSON-RPC codes a response may carry: the five standard codes and the band
\* -32000..-32099 of server-defined codes.
WireCodes ==
    {0 - 32700, 0 - 32600, 0 - 32601, 0 - 32602, 0 - 32603} \cup ((0 - 32099) .. (0 - 32000))

\* C13: whatever error MapAppErrorToJSONRPC is applied to, the triple it returns has a
\* wire code that is one of the five standard codes or lies in -32000..-32099 (never
\* a positive category code), a non-empty message, and a data map that is nil or
\* non-empty.
C13_WireCodeFromDocumentedSet ==
    Returned =>
        /\ mapped[1].code \in WireCodes
        /\ mapped[1].code < 0
        /\ mapped[1].message # <<>>
        /\ mapped[1].data # NilContext => DOMAIN ctxHeap[mapped[1].data] # {}

\* A *BaseError with the unhandled auth code 1500, wrapped twice, has been mapped to
\* -32603.
C13_Witness ==
    /\ lastCall.op = "MapAppErrorToJSONRPC"
    /\ Returned
    /\ WrapDepth(held) = 2
    /\ As(held) = 1
    /\ baseErrs[1].Code = 1500
    /\ mapped[1].code = 0 - 32603

\* C14: MapAppErrorToJSONRPC is total: for every input (a nil error, a domain error
\* built with a nil cause, an error wrapped twice by foreign wrappers, ...) the call
\* does not panic and returns a triple with a message.
C14_MapperIsTotal ==
    mapped # <<>> =>
        /\ ~panicked
        /\ ~mapped[1].panic
        /\ mapped[1].message # <<>>

\* The data map the mapping call has just returned, by its contents.
ReturnedData == ContextOf(mapped[1].data)

ExposableKeys ==
    {"uri", "toolName", "method", "serviceName", "parameter_name", "query_path",
     "requested_path"}

\* C15: in the data MapAppErrorToJSONRPC returns, every key is either a key of the
\* allowlist (uri, toolName, method, serviceName, parameter_name, query_path,
\* requested_path) or one of detail, internalCode, goErrorType: a context key outside
\* the allowlist is never there, whatever the error's code and wrapping, even when
\* the error's Context holds it.
C15_OnlyAllowlistedContextInData ==
    (lastCall.op = "MapAppErrorToJSONRPC" /\ Returned) =>
        \A k \in DOMAIN ReturnedData :
            k \in ExposableKeys \cup {"detail", "internalCode", "goErrorType"}

\* A wrapped domain error whose Context holds uri and secret has been mapped: the data
\* holds uri and does not hold secret.
C15_Witness ==
    /\ lastCall.op = "MapAppErrorToJSONRPC"
    /\ Returned
    /\ WrapDepth(held) = 1
    /\ As(held) = 1
    /\ DOMAIN ContextOf(baseErrs[1].Context) = {"uri", "secret"}
    /\ "uri" \in DOMAIN ReturnedData
    /\ "secret" \notin DOMAIN ReturnedData

\* The caller has just mapped a domain error it holds directly; e is the error's struct.
MappedDomainError ==
    /\ lastCall.op = "MapAppErrorToJSONRPC"
    /\ mapped # <<>>
    /\ held.t = "ptr"

\* C16: for a domain error made by NewParseError, NewInvalidRequestError,
\* NewMethodNotFoundError, NewInvalidParamsError or NewInternalError,
\* MapAppErrorToJSONRPC returns the constructor's wire code (-32700, -32600, -32601,
\* -32602, -32603), that code's fixed message, and data.detail equal to the message
\* given to the constructor, which is never the top-level message.
C16_FixedCodeConstructorsMapOneToOne ==
    (/\ MappedDomainError
     /\ baseErrs[held.obj].Type \in {"ParseError", "InvalidRequestError",
                                     "MethodNotFoundError", "InvalidParamsError",
                                     "InternalError"}) =>
        LET e == baseErrs[held.obj]
            wire == CASE e.Type = "ParseError" -> 0 - 32700
                      [] e.Type = "InvalidRequestError" -> 0 - 32600
                      [] e.Type = "MethodNotFoundError" -> 0 - 32601
                      [] e.Type = "InvalidParamsError" -> 0 - 32602
                      [] e.Type = "InternalError" -> 0 - 32603
        IN  /\ Returned
            /\ mapped[1].code = wire
            /\ mapped[1].message = SwitchOnCode(wire).message
            /\ mapped[1].message # e.Message
            /\ "detail" \in DOMAIN ReturnedData
            /\ ReturnedData["detail"] = e.Message

\* C17: for a domain error made by a category constructor with a defined category code
\* (auth 1000-1003, resource 3000-3002, protocol 4000-4001), MapAppErrorToJSONRPC
\* returns a wire code in -32000..-32099 with that code's fixed message; the four auth
\* codes give one and the same wire code and message.
C17_CategoryCodesMapIntoCustomBand ==
    (/\ MappedDomainError
     /\ baseErrs[held.obj].Type \in {"AuthError", "ResourceError", "ProtocolError"}
     /\ baseErrs[held.obj].Code \in (1000 .. 1003) \cup (3000 .. 3002) \cup (4000 .. 4001)) =>
        LET e == baseErrs[held.obj]
        IN  /\ Returned
            /\ mapped[1].code \in (0 - 32099) .. (0 - 32000)
            /\ mapped[1].message = SwitchOnCode(e.Code).message
            /\ mapped[1].message # e.Message
            /\ e.Code \in 1000 .. 1003 =>
                   /\ mapped[1].code = 0 - 32010
                   /\ mapped[1].message = <<"Authentication required or failed.">>

\* The codes the switch of MapAppErrorToJSONRPC names.
HandledCodes ==
    {ErrParseError, ErrInvalidRequest, ErrMethodNotFound, ErrInvalidParams, ErrInternalError,
     ErrServiceNotFound, ErrRequestSequence, ErrResourceNotFound, ErrResourceInvalid,
     ErrResourceForbidden, ErrAuthFailure, ErrAuthInvalid, ErrAuthExpired, ErrAuthMissing,
     ErrProtocolInvalid, ErrProtocolUnsupported}

\* C18: for a domain error whose code the switch does not name (the auth code 1500, the
\* custom code -32050, ...), MapAppErrorToJSONRPC returns -32603 with data.internalCode
\* equal to the error's code and data.detail equal to its message.
C18_UnhandledCodeFallsBackToInternal ==
    (MappedDomainError /\ baseErrs[held.obj].Code \notin HandledCodes) =>
        LET e == baseErrs[held.obj]
        IN  /\ Returned
            /\ mapped[1].code = 0 - 32603
            /\ "internalCode" \in DOMAIN ReturnedData
            /\ ReturnedData["internalCode"] = e.Code
            /\ "detail" \in DOMAIN ReturnedData
            /\ ReturnedData["detail"] = e.Message

RECURSIVE IsForeign(_)
\* err is a non-nil error with no domain error anywhere in its chain.
IsForeign(err) ==
    CASE err.t = "errorString" -> TRUE
      [] err.t \in {"wrapError", "withStack"} -> IsForeign(err.inner)
      [] OTHER -> FALSE

\* C19: for an error that does not unwrap to a domain error (a plain error "boom",
\* wrapped or not), MapAppErrorToJSONRPC returns -32603, the message "An internal
\* server error occurred.", and a data map with exactly the keys goErrorType (the
\* dynamic type name) and detail (err.Error()); the error's text is not the message.
C19_ForeignErrorIsOpaqueInternal ==
    (lastCall.op = "MapAppErrorToJSONRPC" /\ mapped # <<>> /\ IsForeign(held)) =>
        /\ Returned
        /\ mapped[1].code = 0 - 32603
        /\ mapped[1].message = <<"An internal server error occurred.">>
        /\ mapped[1].message # ErrorString(held)
        /\ DOMAIN ReturnedData = {"goErrorType", "detail"}
        /\ ReturnedData["goErrorType"] = TypeName(held)
        /\ ReturnedData["detail"] = ErrorString(held)

\* The plain error "boom" has been mapped: data.detail is "boom".
C19_Witness ==
    /\ lastCall.op = "MapAppErrorToJSONRPC"
    /\ Returned
    /\ held = ForeignError(<<"boom">>)
    /\ ReturnedData["detail"] = <<"boom">>
    /\ ReturnedData["goErrorType"] = <<"*errors.errorString">>

\* What each domain error's Context reads as, and what the caller's map reads as.
ErrorContexts == [i \in DOMAIN baseErrs |-> ContextOf(baseErrs[i].Context)]
CallerMap == ContextOf(callerContext)

\* C20: a domain error's Context is owned by the error alone: a write of the caller
\* into the map it passed to the constructor leaves every error's Context as it was,
\* WithContext on the error leaves the caller's map as it was, and a write into the
\* data map MapAppErrorToJSONRPC returned leaves every error's Context as it was.
C20_ContextIsNeverAliased ==
    [][/\ lastCall'.op = "context[key] = value" => ErrorContexts' = ErrorContexts
       /\ lastCall'.op = "WithContext" => CallerMap' = CallerMap
       /\ lastCall'.op = "data[key] = value" => ErrorContexts' = ErrorContexts]_vars

\* The counters of a ServerMetrics value are ordered as the collector keeps them.
CountersOrdered(m) ==
    /\ 0 <= m.ActiveConnections
    /\ m.ActiveConnections <= m.TotalConnections
    /\ 0 <= m.FailedRequests
    /\ m.FailedRequests <= m.TotalRequests

\* C28: in every reachable state of the collector, and in every snapshot built or held,
\* 0 <= ActiveConnections <= TotalConnections and 0 <= FailedRequests <= TotalRequests;
\* and no step makes TotalConnections, FailedConnections, TotalRequests or
\* FailedRequests smaller.
C28_CountersOrderedAndMonotonic ==
    /\ [](/\ CountersOrdered(metrics)
          /\ \A w \in Workers :
                 /\ pc[w] \in {"gm_errors", "gm_runlock", "gm_return"} =>
                        CountersOrdered(local[w].metricsCopy)
                 /\ snap[w] # <<>> => CountersOrdered(snap[w][1]))
    /\ [][/\ metrics'.TotalConnections >= metrics.TotalConnections
           /\ metrics'.FailedConnections >= metrics.FailedConnections
           /\ metrics'.TotalRequests >= metrics.TotalRequests
           /\ metrics'.FailedRequests >= metrics.FailedRequests]_vars

\* A connection was opened and closed, and a worker holds a snapshot that reports it:
\* no active connection of one in total.
C28_Witness ==
    \E w \in Workers :
        /\ snap[w] # <<>>
        /\ snap[w][1].ActiveConnections = 0
        /\ snap[w][1].TotalConnections = 1
        /\ metrics.ActiveConnections = 0
        /\ metrics.TotalConnections = 1

\* C29: when RecordConnection(id, false) has run its body: if id was not tracked at
\* entry, the collector is as it was at entry (active set, ActiveConnections,
\* TotalConnections) and ActiveConnections is not negative; if id was tracked, the
\* active set is the one at entry without id, ActiveConnections is one less than at
\* entry, and TotalConnections is as it was.
C29_CloseRemovesExactlyTheId ==
    \A w \in Workers :
        (pc[w] = "rc_unlock" /\ ~args[w].active) =>
            LET e == entry[w][1].view
                id == args[w].connectionID
            IN  /\ metrics.ActiveConnections >= 0
                /\ metrics.TotalConnections = e.TotalConnections
                /\ id \notin e.active => View = e
                /\ id \in e.active =>
                       /\ View.active = e.active \ {id}
                       /\ metrics.ActiveConnections = e.ActiveConnections - 1

\* RecordConnection("c2", false) has run its body while only "c1" was tracked.
C29_Witness ==
    /\ pc[Caller] = "rc_unlock"
    /\ ~args[Caller].active
    /\ args[Caller].connectionID = "c2"
    /\ entry[Caller][1].view.active = {"c1"}
    /\ metrics.ActiveConnections = 1

\* The smallest and the largest element of a non-empty set of integers.
Smallest(S) == CHOOSE x \in S : \A y \in S : x <= y
Largest(S) == CHOOSE x \in S : \A y \in S : y <= x

\* C30: as long as the latency map is written by RecordRequest only, an identifier has
\* an entry in it if and only if RecordRequest has recorded a latency for it, and the
\* entry lies between the smallest and the largest latencyMs recorded for that
\* identifier, inclusive.
C30_EstimateWithinRecordedRange ==
    (constructed /\ calls.mutations = 0) =>
        LET m == View.RequestLatencies
        IN  /\ DOMAIN m = DOMAIN observed
            /\ \A id \in DOMAIN m :
                   /\ Smallest(observed[id]) <= m[id]
                   /\ m[id] <= Largest(observed[id])

\* After the calls 200, 0, 100 for "x" the estimate is 100, strictly inside 0 .. 200,
\* and "y" has no entry.
C30_Witness ==
    /\ Idle
    /\ constructed
    /\ calls.mutations = 0
    /\ DOMAIN observed = {"x"}
    /\ observed["x"] = {0, 100, 200}
    /\ View.RequestLatencies["x"] = 100

\* C27: under fair scheduling every call of a collector method eventually returns, and
\* a worker that holds the lock, for writing or for reading, eventually releases it,
\* whatever the other workers call; this includes RecordError on a collector whose
\* capacity is not positive.
C27_EveryCallReturns ==
    \A w \in Workers :
        /\ (pc[w] # "idle") ~> (pc[w] = "idle")
        /\ (mu.writer = w) ~> (mu.writer # w)
        /\ (w \in mu.readers) ~> (w \notin mu.readers)

\* RecordError takes the early return on a collector without error history while the
\* other worker waits for the lock.
C27_Witness ==
    \E w \in Workers, v \in Workers :
        /\ pc[w] = "re_unlock"
        /\ BufferDisabled(bufferSize)
        /\ mu.writer = w
        /\ pc[v] \in {"rr_lock", "rc_lock", "rcf_lock", "re_lock", "gm_rlock"}

\* ---------------------------------------------------------------- web: properties
\* The request came through the handler Tracing returned / was handed to a handler
\* directly, and its downstream handler has started.
Traced(r) == req[r].traced /\ req[r].pc # "new"
Direct(r) == ~req[r].traced /\ req[r].pc # "new"
HandlerStarted(r) == req[r].pc \in {"h_logger", "h_respond", "done"}
HandlerHasLogger(r) == req[r].pc \in {"h_respond", "done"}

\* The X-Trace-ID header of the response, "" when it is not set.
Outbound(r) ==
    IF HeaderTraceID \in DOMAIN req[r].header THEN req[r].header[HeaderTraceID]
    ELSE EmptyString

\* C21: once Tracing has passed the statement that sets it, the X-Trace-ID response
\* header of a request is a non-empty id: the inbound X-Cloud-Trace-Context value,
\* unchanged, when the request carries one, and otherwise an id generated for it.
C21_OutboundHeaderCarriesCorrelationId ==
    \A r \in Requests :
        (Traced(r) /\ req[r].pc \notin {"tr_traceid", "tr_header"}) =>
            /\ Outbound(r) # EmptyString
            /\ req[r].inbound # EmptyString => Outbound(r) = req[r].inbound
            /\ req[r].inbound = EmptyString => \E u \in UUIDs : Outbound(r) = Generated(u)

\* One finished request that brought its id and one that had one generated.
C21_Witness ==
    \E r, q \in Requests :
        /\ req[r].pc = "done" /\ req[r].traced
        /\ req[r].inbound = <<"abc">> /\ Outbound(r) = <<"abc">>
        /\ req[q].pc = "done" /\ req[q].traced
        /\ req[q].inbound = EmptyString /\ Outbound(q) = Generated("u2")

\* Tracing has chosen the id of the request, and the id was generated / inherited.
HasTraceID(r) == Traced(r) /\ req[r].pc # "tr_traceid"
WasGenerated(r) == HasTraceID(r) /\ req[r].inbound = EmptyString
WasInherited(r) == HasTraceID(r) /\ req[r].inbound # EmptyString
Marked(id) == Len(id) >= 1 /\ id[1] = GeneratedPrefix

\* C22 as stated: two requests without inbound header never get the same id, every
\* generated id starts with "generated-", and no inherited id does.
C22_GeneratedIdsDistinctAndMarked ==
    /\ \A r, q \in Requests :
          (r # q /\ WasGenerated(r) /\ WasGenerated(q)) => req[r].traceID # req[q].traceID
    /\ \A r \in Requests : WasGenerated(r) => Marked(req[r].traceID)
    /\ \A r \in Requests : WasInherited(r) => ~Marked(req[r].traceID)

\* C22, amended: a request without inbound header gets "generated-" followed by the
\* UUID that its own call of uuid.New returned, so two such requests get the same id
\* only if uuid.New returned the same UUID twice; a request with an inbound value
\* makes no such call; an id that does not start with "generated-" was inherited.
C22_GeneratedIdIsPrefixPlusOwnUUID ==
    /\ \A r \in Requests :
          WasGenerated(r) =>
              /\ Len(req[r].uuid) = 1
              /\ req[r].traceID = <<GeneratedPrefix>> \o req[r].uuid
    /\ \A r \in Requests : WasInherited(r) => req[r].uuid = <<>>
    /\ \A r, q \in Requests :
          (WasGenerated(r) /\ WasGenerated(q) /\ req[r].uuid # req[q].uuid)
              => req[r].traceID # req[q].traceID
    /\ \A r \in Requests : (HasTraceID(r) /\ ~Marked(req[r].traceID)) => WasInherited(r)

\* Two requests without inbound header are in flight together, with different ids.
C22_Witness ==
    /\ WasGenerated(1) /\ WasGenerated(2)
    /\ req[1].pc # "done" /\ req[2].pc # "done"
    /\ req[1].traceID = Generated("u1")
    /\ req[2].traceID = Generated("u2")

\* The values of the trace_id attributes in a sequence of attributes, and of a logger.
TraceIDsIn(attrs) == {attrs[i][2] : i \in {j \in DOMAIN attrs : attrs[j][1] = "trace_id"}}
TraceIDFields(l) == TraceIDsIn(loggers[l].attrs)

\* C23: within one request that came through Tracing the id is the same everywhere:
\* when the downstream handler starts, the X-Trace-ID response header is already set
\* to the id that GetTraceIDFromContext returns in the handler; the logger that
\* GetLoggerFromContext returns is the one Tracing stored, and its trace_id field is
\* that id (a NoopLogger has no fields at all); the id the health handler puts into
\* its body is that id too.
C23_OneIdWithinARequest ==
    \A r \in Requests :
        Traced(r) =>
            LET id == GetTraceIDFromContext(req[r].ctx)
            IN  /\ HandlerStarted(r) =>
                      /\ id # EmptyString
                      /\ Len(req[r].served) = 1
                      /\ HeaderTraceID \in DOMAIN req[r].served[1]
                      /\ req[r].served[1][HeaderTraceID] = id
                      /\ Outbound(r) = id
                /\ HandlerHasLogger(r) =>
                      /\ req[r].fromCtx = req[r].ctx.logger[1]
                      /\ TraceIDFields(req[r].fromCtx) \subseteq {id}
                      /\ loggers[req[r].fromCtx].kind = "slog"
                             => TraceIDFields(req[r].fromCtx) = {id}
                /\ (req[r].pc = "done" /\ req[r].route = "/health") =>
                      Decode(req[r].response[1].body)["traceId"] = id

\* A request with an inherited id has been answered by the health handler, whose
\* logger writes records.
C23_Witness ==
    \E r \in Requests :
        /\ Traced(r) /\ req[r].pc = "done" /\ req[r].route = "/health"
        /\ loggers[req[r].fromCtx].kind = "slog"
        /\ TraceIDFields(req[r].fromCtx) = {<<"abc">>}
        /\ Outbound(r) = <<"abc">>
        /\ Decode(req[r].response[1].body)["traceId"] = <<"abc">>

\* The fallback warnings among the records a request wrote.
Warnings(r) ==
    {i \in DOMAIN req[r].emitted :
        req[r].emitted[i].msg = "Logger not found in context, using fallback."}

\* What the accessors return when Tracing has filled the context: the stored logger
\* and id, and no warning is written.
StoredValuesReturned ==
    \A r \in Requests :
        (Traced(r) /\ HandlerHasLogger(r)) =>
            /\ req[r].fromCtx = req[r].ctx.logger[1]
            /\ GetTraceIDFromContext(req[r].ctx) = req[r].traceID
            /\ Warnings(r) = {}

\* C24 as stated: on a context without scoped logger GetLoggerFromContext returns a
\* no-op logger, never nil, and one warning has been written; on a context without id
\* GetTraceIDFromContext returns ""; after Tracing the accessors return what was
\* stored, without a warning.
C24_FallbackIsNoopAfterOneWarning ==
    /\ \A r \in Requests :
          (Direct(r) /\ HandlerHasLogger(r)) =>
              /\ req[r].fromCtx # NilLogger
              /\ loggers[req[r].fromCtx].kind = "noop"
              /\ Cardinality(Warnings(r)) = 1
    /\ \A r \in Requests : Direct(r) => GetTraceIDFromContext(req[r].ctx) = EmptyString
    /\ StoredValuesReturned

\* C24, amended: on a context without scoped logger GetLoggerFromContext returns,
\* never nil, the default logger with the field component = context_logger_fallback,
\* which is the no-op logger exactly when no default logger has been set, after one
\* call of Warn on it: a warning record is written exactly when the default logger is
\* a slog logger whose level admits warnings.  The rest is as stated.
C24_FallbackIsDefaultLoggerWarnedOnce ==
    /\ \A r \in Requests :
          (Direct(r) /\ HandlerHasLogger(r)) =>
              LET got == loggers[req[r].fromCtx]
                  dflt == loggers[defaultLogger]
              IN  /\ req[r].fromCtx # NilLogger
                  /\ (got.kind = "noop") <=> (defaultLogger = noop)
                  /\ got.kind = "slog" =>
                        /\ got.level = dflt.level
                        /\ got.attrs = Append(dflt.attrs,
                                              <<"component", "context_logger_fallback">>)
                  /\ Cardinality(Warnings(r)) =
                        IF got.kind = "slog" /\ LevelRank["warn"] >= LevelRank[got.level]
                        THEN 1 ELSE 0
                  /\ \A i \in Warnings(r) : req[r].emitted[i].level = "warn"
    /\ \A r \in Requests : Direct(r) => GetTraceIDFromContext(req[r].ctx) = EmptyString
    /\ StoredValuesReturned

\* With a default logger at debug level, one handler called directly has its
\* fallback logger and has written the warning, and a request that came through
\* Tracing has its stored logger.
C24_Witness ==
    \E r, q \in Requests :
        /\ Direct(r) /\ HandlerHasLogger(r)
        /\ loggers[req[r].fromCtx].kind = "slog"
        /\ Cardinality(Warnings(r)) = 1
        /\ Traced(q) /\ HandlerHasLogger(q)
        /\ req[q].fromCtx = req[q].ctx.logger[1]

\* C25: requests handled concurrently through one Tracing instance, which share its
\* base logger, share no correlation state: the id in a request's context and in its
\* response header is its own, the loggers its handler holds carry no id but its own,
\* every record it writes carries its own id and no other, the id in a health body
\* is its own, and two requests never hold the same field-carrying scoped logger.
C25_NoCorrelationStateShared ==
    /\ \A r \in Requests :
          Traced(r) =>
              /\ req[r].ctx.traceID \in {<<>>, <<req[r].traceID>>}
              /\ Outbound(r) \in {EmptyString, req[r].traceID}
              /\ HandlerHasLogger(r) =>
                    /\ TraceIDFields(req[r].fromCtx) \subseteq {req[r].traceID}
                    /\ TraceIDFields(req[r].reqLogger) \subseteq {req[r].traceID}
              /\ \A i \in DOMAIN req[r].emitted :
                    TraceIDsIn(req[r].emitted[i].attrs) = {req[r].traceID}
              /\ \A i \in DOMAIN req[r].response :
                    "traceId" \in DOMAIN req[r].response[i].body
                        => Decode(req[r].response[i].body)["traceId"] = req[r].traceID
    /\ \A r, q \in Requests :
          (r # q /\ Traced(r) /\ Traced(q) /\ req[r].ctx.logger # <<>>
                 /\ req[q].ctx.logger # <<>>
                 /\ loggers[req[r].ctx.logger[1]].kind = "slog")
              => /\ req[r].ctx.logger # req[q].ctx.logger
                 /\ req[r].ctx.logger[1] # baseLogger

\* Two requests with different ids are inside their handlers at the same time, each
\* with a logger that writes records, and the first has written one.
C25_Witness ==
    /\ Traced(1) /\ Traced(2)
    /\ req[1].pc = "h_respond" /\ req[2].pc = "h_respond"
    /\ req[1].traceID = <<"abc">>
    /\ req[2].traceID = Generated("u1")
    /\ loggers[req[1].reqLogger].kind = "slog"
    /\ loggers[req[2].reqLogger].kind = "slog"
    /\ Len(req[1].emitted) = 1
    /\ TraceIDsIn(req[1].emitted[1].attrs) = {<<"abc">>}

\* sub occurs in s.
Contains(s, sub) ==
    \E i \in 1 .. (Len(s) - Len(sub) + 1) : SubSeq(s, i, i + Len(sub) - 1) = sub

\* C26: helloHandler writes exactly one response per request, and nothing before it
\* has looked at the name: without a name the status is 400 and the JSON body has
\* the error "Invalid Request Parameter", the details that the name is required and
\* no greeting; with a name the status is 200 and the body is a greeting whose
\* message contains the name.
C26_HelloWritesOneResponse ==
    \A r \in Requests :
        req[r].route = "/hello" =>
            /\ req[r].pc # "done" => req[r].response = <<>>
            /\ req[r].pc = "done" =>
                  /\ Len(req[r].response) = 1
                  /\ req[r].header["Content-Type"] = <<"application/json">>
                  /\ LET status == req[r].response[1].status
                         body == Decode(req[r].response[1].body)
                     IN  IF req[r].name = EmptyString
                         THEN /\ status = StatusBadRequest
                              /\ DOMAIN body = {"error", "details"}
                              /\ body["error"] = <<"Invalid Request Parameter">>
                              /\ body["details"] = <<"The 'name' query parameter is required.">>
                         ELSE /\ status = StatusOK
                              /\ DOMAIN body = {"message"}
                              /\ Contains(body["message"], req[r].name)

\* One request without a name has been refused and one with the name "<", which the
\* encoder escapes, has been greeted.
C26_Witness ==
    \E r, q \in Requests :
        /\ req[r].route = "/hello" /\ req[r].pc = "done" /\ req[r].name = EmptyString
        /\ req[r].response[1].status = StatusBadRequest
        /\ req[q].route = "/hello" /\ req[q].pc = "done" /\ req[q].name = <<"<">>
        /\ req[q].response[1].status = StatusOK
        /\ ~Contains(req[q].response[1].body["message"], req[q].name)
        /\ Contains(Decode(req[q].response[1].body)["message"], req[q].name)

====
